---- MODULE Spec2Model ----
(***************************************************************************)
(* Model of the communicator resolution chain of thola                     *)
(* (core/communicator): the property getters of networkDeviceCommunicator, *)
(* the three-step resolver executeWithRecursion behind them, the component *)
(* gates and the component aggregators.                                    *)
(*                                                                         *)
(* A chain of communicators is numbered 1..depth: node 1 is the head, node *)
(* i+1 is the sub (parent) communicator of node i.  What the device class  *)
(* reader and the code communicator answer is the environment's choice,    *)
(* made at the moment the step is evaluated.                                *)
(***************************************************************************)
EXTENDS Integers, Sequences, FiniteSets

VARIABLES
    depth,                 \* number of communicators in the chain
    codeCommunicator,      \* codeCommunicator[i]: node i has a code communicator (# nil)
    component,             \* the component kind whose availability flag the run tracks
    hasAvailableComponent, \* hasAvailableComponent[i]: class of node i advertises `component`
    getter,                \* the property getter being resolved, "none" when idle
    pc,                    \* pc[i]: position of node i inside its getter
    step,                  \* step[i]: outcomes of the steps node i has evaluated
    exec,                  \* exec[i]: what executeWithRecursion returned at node i
    ret,                   \* ret[i]: what the getter of node i returned
    trace,                 \* the steps evaluated so far, in order: <<node, step>>
    agg,                   \* the component aggregator running at the head, "none" when idle
    aggIdx,                \* index of the constituent property the aggregator is at
    aggRec,                \* the component record under construction: field -> is it set
    aggEmpty,              \* the aggregator's local `empty`
    aggRet,                \* what the aggregator returned
    aggCalls,              \* the getters the aggregator has invoked, in order
    norm,                  \* calls of normalizeInterfaces: the argument, the slice, the results
    ident,                 \* a call of GetIdentifyProperties: dev.Properties, ctx, the calls made
    reader,                \* a read of a deviceClassOIDs tree: the tree, the device, the result
    layers,                \* merges of deviceClassOIDs: the heap of readers, the maps merged
    sap,                   \* a call of timosSASCommunicator.GetInterfaces
    runs                   \* resolutions of one property, one after the other, and their outcomes

vars == <<depth, codeCommunicator, component, hasAvailableComponent, getter, pc,
          step, exec, ret, trace, agg, aggIdx, aggRec, aggEmpty, aggRet, aggCalls,
          norm, ident, reader, layers, sap, runs>>

chainVars == <<depth, codeCommunicator, component, hasAvailableComponent>>
resVars == <<getter, pc, step, exec, ret, trace>>
aggVars == <<agg, aggIdx, aggRec, aggEmpty, aggRet, aggCalls>>
otherVars == <<layers, sap, runs>>
funVars == <<norm, ident, reader, otherVars>>

\* longest inheritance chain explored by Spec
MaxDepth == 3

\* longest inheritance chain explored under the component aggregators (SpecAgg)
AggMaxDepth == 2

\* longest interface list handed to normalizeInterfaces (SpecNorm)
MaxIfs == 2

\* longest inheritance chain explored under GetIdentifyProperties (SpecIdentify)
IdMaxDepth == 2

\* deepest nesting of deviceClassOIDs inside deviceClassOIDs (SpecRead)
MaxTreeDepth == 2

\* deepest nesting of deviceClassOIDs inside the maps that are merged (SpecMerge)
MaxMergeDepth == 2

\* longest inheritance chain a property is resolved on twice (SpecRuns)
MaxRunChain == 2

\* most rows in the walk of the SAP table (SpecSAS)
MaxSapRows == 2

\* most interfaces the parent of the TiMOS SAS communicator lists (SpecSAS)
MaxSapIfs == 2

\* most responses in the walk of one OID (SpecLeaf)
MaxWalk == 2

(***************************************************************************)
(* Interfaces.  A pointer field is Nil or Some(v).  A speed is a number    *)
(* written in base 1,000,000: Num(m, r) is m * 1000000 + r.                *)
(***************************************************************************)
Nil == [set |-> FALSE]

Some(v) == [set |-> TRUE, v |-> v]

Million == 1000000

Num(m, r) == [m |-> m, r |-> r]

\* math.MaxUint32 = 4294967295
MaxUint32 == Num(4294, 967295)

\* the number n stands for, where it is below 2^31
Value(n) == n.m * Million + n.r

\* TimesMillion multiplying by 1000 only
TimesMillion_Thousand(h) == Num(h \div 1000, (h % 1000) * 1000)

\* h * 1000000
TimesMillion(h) == Num(h, 0)

\* the interfaces the lists are made of
IfSpeeds == {Nil, Some(Num(0, 1000)), Some(Num(4294, 967294)), Some(MaxUint32)}

IfHighSpeeds == {Nil, Some(0), Some(10), Some(4295)}

Interfaces ==
    [IfIndex : {1, 2}, IfSpeed : IfSpeeds, IfHighSpeed : IfHighSpeeds, SAP : {Nil}]

\* the lists of at most n interfaces
IfLists(n) == UNION {[1..k -> Interfaces] : k \in 0..n}

\* normalizeInterface adding the counter to whatever speed there is
normalizeInterface_Accumulating(interf) ==
    IF interf.IfSpeed # Nil /\ interf.IfHighSpeed # Nil
    THEN [interf EXCEPT !.IfSpeed = Some(Num(interf.IfSpeed.v.m + interf.IfHighSpeed.v,
                                             interf.IfSpeed.v.r))]
    ELSE interf

\* the rewrite of one interface inside the loop of normalizeInterfaces
normalizeInterface(interf) ==
    IF interf.IfSpeed # Nil /\ interf.IfHighSpeed # Nil /\ interf.IfSpeed.v = MaxUint32
    THEN [interf EXCEPT !.IfSpeed = Some(TimesMillion(interf.IfHighSpeed.v))]
    ELSE interf

normalizeInterfaces(interfaces) ==
    [i \in 1..Len(interfaces) |-> normalizeInterface(interfaces[i])]

(***************************************************************************)
(* Results.  A result is a failure kind or "ok" with a value; a value      *)
(* remembers the step that produced it, whether it is the empty string,    *)
(* the interface list it holds when it is one, and how often               *)
(* normalizeInterfaces has been applied to it.                              *)
(***************************************************************************)
None == [kind |-> "none"]

NoValue == [node |-> 0, step |-> "none", empty |-> FALSE, norm |-> 0, ifs |-> <<>>]

Ok(v) == [kind |-> "ok", val |-> v]

Fail(k) == [kind |-> k, val |-> NoValue]

NotImplementedError == Fail("NotImplemented")

NotFoundError == Fail("NotFound")

ComponentNotFoundError == Fail("ComponentNotFound")

\* a failure that is neither NotImplemented nor NotFound (transport, decode)
HardError == Fail("error")

IsNotImplementedError(e) == e.kind = "NotImplemented"

IsNotFoundError(e) == e.kind = "NotFound"

(***************************************************************************)
(* The property getters, their component and their gate.                    *)
(***************************************************************************)
Components == {"interfaces", "cpu", "memory", "ups", "sbc", "server", "disk", "hardwareHealth"}

IdentifyGetters == {"GetVendor", "GetModel", "GetModelSeries", "GetSerialNumber", "GetOSVersion"}

InterfaceGetters == {"GetIfTable", "GetInterfaces", "GetCountInterfaces"}

CPUGetters == {"GetCPUComponentCPULoad", "GetCPUComponentCPUTemperature"}

MemoryGetters == {"GetMemoryComponentMemoryUsage"}

UPSProperties == <<"GetUPSComponentAlarmLowVoltageDisconnect", "GetUPSComponentBatteryAmperage",
                   "GetUPSComponentBatteryCapacity", "GetUPSComponentBatteryCurrent",
                   "GetUPSComponentBatteryRemainingTime", "GetUPSComponentBatteryTemperature",
                   "GetUPSComponentBatteryVoltage", "GetUPSComponentCurrentLoad",
                   "GetUPSComponentMainsVoltageApplied", "GetUPSComponentRectifierCurrent",
                   "GetUPSComponentSystemVoltage">>

SBCProperties == <<"GetSBCComponentAgents", "GetSBCComponentRealms",
                   "GetSBCComponentGlobalCallPerSecond", "GetSBCComponentGlobalConcurrentSessions",
                   "GetSBCComponentActiveLocalContacts", "GetSBCComponentTranscodingCapacity",
                   "GetSBCComponentLicenseCapacity", "GetSBCComponentSystemRedundancy",
                   "GetSBCComponentSystemHealthScore">>

CPUProperties == <<"GetCPUComponentCPULoad", "GetCPUComponentCPUTemperature">>

ServerProperties == <<"GetServerComponentProcs", "GetServerComponentUsers">>

DiskProperties == <<"GetDiskComponentStorages">>

HardwareHealthProperties == <<"GetHardwareHealthComponentEnvironmentMonitorState",
                              "GetHardwareHealthComponentFans",
                              "GetHardwareHealthComponentPowerSupply">>

Range(s) == {s[k] : k \in 1..Len(s)}

UPSGetters == Range(UPSProperties)

SBCGetters == Range(SBCProperties)

ServerGetters == Range(ServerProperties)

DiskGetters == Range(DiskProperties)

HardwareHealthGetters == Range(HardwareHealthProperties)

Getters == IdentifyGetters \cup InterfaceGetters \cup CPUGetters \cup MemoryGetters
           \cup UPSGetters \cup SBCGetters \cup ServerGetters \cup DiskGetters
           \cup HardwareHealthGetters

\* the component kind a getter's property belongs to
ComponentOf(g) ==
    IF g \in InterfaceGetters THEN "interfaces"
    ELSE IF g \in CPUGetters THEN "cpu"
    ELSE IF g \in MemoryGetters THEN "memory"
    ELSE IF g \in UPSGetters THEN "ups"
    ELSE IF g \in SBCGetters THEN "sbc"
    ELSE IF g \in ServerGetters THEN "server"
    ELSE IF g \in DiskGetters THEN "disk"
    ELSE IF g \in HardwareHealthGetters THEN "hardwareHealth"
    ELSE "none"

GetDeviceClass(i) == i

isHead(i) == GetDeviceClass(1) = GetDeviceClass(i)

\* the getters that open with `if !hasAvailableComponent(K)`
GatedAtEveryNode == CPUGetters \cup ServerGetters

\* the getters that open with `if c.isHead() && !hasAvailableComponent(K)`
GatedAtHead == {"GetInterfaces", "GetIfTable"} \cup MemoryGetters

\* the guard at the top of getter g at node i: TRUE when the getter returns
\* ComponentNotFound before resolving anything
GateRejects(g, i, has) ==
    IF g \in GatedAtEveryNode THEN ~has
    ELSE IF g \in GatedAtHead THEN isHead(i) /\ ~has
    ELSE FALSE

(***************************************************************************)
(* executeWithRecursion, cut at its three calls.                            *)
(***************************************************************************)
\* ReturnsAfterClass with the success return lost: a value falls through to fCom
ReturnsAfterClass_SuccessFallsThrough(r1) == r1.kind # "ok" /\ ~IsNotImplementedError(r1)

\* ReturnsAfterClass letting every failure fall through to fCom
ReturnsAfterClass_FailureFallsThrough(r1) == r1.kind = "ok"

\* after fClass: TRUE when the function returns (value or err1)
ReturnsAfterClass(r1) == r1.kind = "ok" \/ ~IsNotImplementedError(r1)

\* ReturnsAfterCom letting a NotFound of fCom fall through to fSub
ReturnsAfterCom_NotFoundFallsThrough(r2) ==
    r2.kind = "ok" \/ (~IsNotImplementedError(r2) /\ ~IsNotFoundError(r2))

\* after fCom: TRUE when the function returns (value or err2)
ReturnsAfterCom(r2) == r2.kind = "ok" \/ ~IsNotImplementedError(r2)

\* ReturnsAfterSub with the success return lost: the parent's value is dropped
ReturnsAfterSub_ValueDropped(r3) == r3.kind # "ok" /\ ~IsNotFoundError(r3)

\* after fSub: TRUE when the function returns (value or err3) right there
ReturnsAfterSub(r3) == r3.kind = "ok" \/ ~IsNotFoundError(r3)

\* FinalError without the all-NotImplemented test
FinalError_AlwaysNotFound(err1, err2, err3) == NotFoundError

\* FinalError answering NotImplemented whatever the three errors are
FinalError_AlwaysNotImplemented(err1, err2, err3) == NotImplementedError

\* the closing test on err1, err2, err3
FinalError(err1, err2, err3) ==
    IF IsNotImplementedError(err1) /\ IsNotImplementedError(err2) /\ IsNotImplementedError(err3)
    THEN NotImplementedError
    ELSE NotFoundError

\* the value after one more call of normalizeInterfaces on its list
Normalized(v) == [v EXCEPT !.norm = @ + 1, !.ifs = normalizeInterfaces(@)]

\* GetterResult without the empty-string test of the identity getters
GetterResult_EmptyAccepted(g, i, r) ==
    IF r.kind # "ok" THEN r
    ELSE IF g = "GetInterfaces"
         THEN (IF isHead(i) THEN Ok(Normalized(r.val)) ELSE r)
    ELSE r

\* GetterResult with GetInterfaces normalizing at every node
GetterResult_EveryNodeNormalizes(g, i, r) ==
    IF r.kind # "ok" THEN r
    ELSE IF g \in IdentifyGetters
         THEN (IF r.val.empty THEN NotFoundError ELSE r)
    ELSE IF g = "GetInterfaces"
         THEN Ok(Normalized(r.val))
    ELSE r

\* what getter g of node i makes of the result of executeWithRecursion
GetterResult(g, i, r) ==
    IF r.kind # "ok" THEN r
    ELSE IF g \in IdentifyGetters
         THEN (IF r.val.empty THEN NotFoundError ELSE r)
    ELSE IF g = "GetInterfaces"
         THEN (IF isHead(i) THEN Ok(Normalized(r.val)) ELSE r)
    ELSE r

(***************************************************************************)
(* The environment: what a class step or a code communicator can answer.   *)
(***************************************************************************)
\* the interface lists a device class or a code communicator reads from the device
DeviceInterfaces ==
    { << [IfIndex |-> 1, IfSpeed |-> Some(MaxUint32), IfHighSpeed |-> Some(10), SAP |-> Nil],
         [IfIndex |-> 2, IfSpeed |-> Some(Num(0, 1000)), IfHighSpeed |-> Nil, SAP |-> Nil] >>,
      << [IfIndex |-> 1, IfSpeed |-> Some(MaxUint32), IfHighSpeed |-> Nil, SAP |-> Nil] >> }

StepValues(g, i, s) ==
    {[node |-> i, step |-> s, empty |-> e, norm |-> 0, ifs |-> l] :
        e \in (IF g \in IdentifyGetters THEN BOOLEAN ELSE {FALSE}),
        l \in (IF g \in {"GetInterfaces", "GetIfTable"} THEN DeviceInterfaces ELSE {<<>>})}

StepOutcomes(g, i, s) ==
    {Ok(v) : v \in StepValues(g, i, s)} \cup {NotImplementedError, NotFoundError, HardError}

NoSteps == [class |-> None, code |-> None, sub |-> None]

Nodes == 1..depth

\* the component kinds that have an aggregator
AggComponents == {"cpu", "ups", "sbc", "server", "disk", "hardwareHealth"}

\* the constituent properties of a component, in the order its aggregator resolves them
Properties(k) ==
    IF k = "cpu" THEN CPUProperties
    ELSE IF k = "ups" THEN UPSProperties
    ELSE IF k = "sbc" THEN SBCProperties
    ELSE IF k = "server" THEN ServerProperties
    ELSE IF k = "disk" THEN DiskProperties
    ELSE IF k = "hardwareHealth" THEN HardwareHealthProperties
    ELSE <<>>

\* the zero value of the component record of kind k: no field set
EmptyRecord(k) == [f \in Range(Properties(k)) |-> FALSE]

TypeOK ==
    /\ depth \in 1..MaxDepth
    /\ codeCommunicator \in [Nodes -> BOOLEAN]
    /\ component \in Components \cup {"none"}
    /\ hasAvailableComponent \in [Nodes -> BOOLEAN]
    /\ getter \in Getters \cup {"none"}
    /\ pc \in [Nodes -> {"idle", "gate", "class", "code", "deleg", "sub", "wait", "done"}]
    /\ DOMAIN step = Nodes
    /\ DOMAIN exec = Nodes
    /\ DOMAIN ret = Nodes

\* the chains of at most d communicators; a run tracks the flag of one component
\* kind, or of none when it resolves the identity properties, which have no component
InitChain(d, kinds) ==
    /\ depth \in 1..d
    /\ codeCommunicator \in [1..depth -> BOOLEAN]
    /\ component \in kinds
    /\ hasAvailableComponent \in
         (IF component = "none" THEN {[i \in 1..depth |-> FALSE]} ELSE [1..depth -> BOOLEAN])

InitWork ==
    /\ getter = "none"
    /\ pc = [i \in 1..depth |-> "idle"]
    /\ step = [i \in 1..depth |-> NoSteps]
    /\ exec = [i \in 1..depth |-> None]
    /\ ret = [i \in 1..depth |-> None]
    /\ trace = <<>>
    /\ agg = "none"
    /\ aggIdx = 0
    /\ aggRec = <<>>
    /\ aggEmpty = TRUE
    /\ aggRet = None
    /\ aggCalls = <<>>

\* the identity getters in the order GetIdentifyProperties calls them
IdentifyProperties ==
    <<"GetVendor", "GetModel", "GetModelSeries", "GetSerialNumber", "GetOSVersion">>

\* device.Properties{}: no field set
EmptyProperties == [f \in IdentifyGetters |-> Nil]

\* GetIdentifyProperties has not been called
IdentIdle ==
    [idx |-> 0, props |-> EmptyProperties, ctx |-> EmptyProperties,
     calls |-> <<>>, ctxs |-> <<>>, results |-> <<>>, ret |-> None]

\* no tree is being read
ReaderIdle ==
    [done |-> FALSE, tree |-> <<>>, device |-> <<>>, order |-> <<>>, res |-> None, prop |-> None]

LayersIdle == [step |-> 0, heap |-> <<>>, order |-> <<>>, ab |-> <<>>, abc |-> <<>>]

SapIdle ==
    [done |-> FALSE, parent |-> None, con |-> FALSE, walk |-> None, bad |-> None,
     slice |-> <<>>, walked |-> FALSE, res |-> None]

RunsIdle == [n |-> 0, chain |-> <<>>, device |-> <<>>, orders |-> <<>>, out |-> <<>>]

\* neither a merge nor a TiMOS read nor a repeated resolution is being made
InitOther ==
    /\ layers = LayersIdle
    /\ sap = SapIdle
    /\ runs = RunsIdle

\* no function outside the resolution chain is being applied
InitFun ==
    /\ InitOther
    /\ norm = [done |-> FALSE, arg |-> <<>>, slice |-> <<>>, res |-> <<>>, twice |-> FALSE, again |-> <<>>]
    /\ ident = IdentIdle
    /\ reader = ReaderIdle

Init == InitChain(MaxDepth, Components \cup {"none"}) /\ InitWork /\ InitFun

InitAgg == InitChain(AggMaxDepth, AggComponents) /\ InitWork /\ InitFun

\* no getter is running
Idle == \A i \in Nodes : pc[i] \in {"idle", "done"}

\* the getters a run over `component` calls
Callable == {g \in Getters : ComponentOf(g) = component}

\* the state in which the head's getter g has just been entered
Enter(g) ==
    /\ getter' = g
    /\ pc' = [i \in Nodes |-> IF i = 1 THEN "gate" ELSE "idle"]
    /\ step' = [i \in Nodes |-> NoSteps]
    /\ exec' = [i \in Nodes |-> None]
    /\ ret' = [i \in Nodes |-> None]
    /\ trace' = <<>>

\* a caller outside the aggregators invokes getter g on the head
Call(g) ==
    /\ Idle
    /\ aggIdx = 0
    /\ g \in Callable
    /\ Enter(g)
    /\ UNCHANGED chainVars
    /\ UNCHANGED funVars
    /\ UNCHANGED aggVars

\* node i leaves executeWithRecursion with r, and its getter returns
Return(i, r) ==
    /\ exec' = [exec EXCEPT ![i] = r]
    /\ ret' = [ret EXCEPT ![i] = GetterResult(getter, i, r)]
    /\ pc' = [pc EXCEPT ![i] = "done"]

\* the guard at the top of the getter
Gate(i) ==
    /\ pc[i] = "gate"
    /\ IF GateRejects(getter, i, hasAvailableComponent[i])
       THEN /\ ret' = [ret EXCEPT ![i] = ComponentNotFoundError]
            /\ pc' = [pc EXCEPT ![i] = "done"]
       ELSE /\ pc' = [pc EXCEPT ![i] = "class"]
            /\ ret' = ret
    /\ UNCHANGED <<getter, step, exec, trace>>
    /\ UNCHANGED chainVars
    /\ UNCHANGED funVars
    /\ UNCHANGED aggVars

\* value, err1 := fClass(args...)
ClassStep(i) ==
    /\ pc[i] = "class"
    /\ \E r1 \in StepOutcomes(getter, i, "class") :
        /\ step' = [step EXCEPT ![i].class = r1]
        /\ trace' = Append(trace, <<i, "class">>)
        /\ IF ReturnsAfterClass(r1)
           THEN Return(i, r1)
           ELSE /\ pc' = [pc EXCEPT ![i] = "code"]
                /\ UNCHANGED <<exec, ret>>
    /\ UNCHANGED getter
    /\ UNCHANGED chainVars
    /\ UNCHANGED funVars
    /\ UNCHANGED aggVars

\* if fCom != nil { value, err2 = fCom(args...) } else { err2 = NotImplemented }
CodeStep(i) ==
    /\ pc[i] = "code"
    /\ IF codeCommunicator[i]
       THEN \E r2 \in StepOutcomes(getter, i, "code") :
                /\ step' = [step EXCEPT ![i].code = r2]
                /\ trace' = Append(trace, <<i, "code">>)
                /\ IF ReturnsAfterCom(r2)
                   THEN Return(i, r2)
                   ELSE /\ pc' = [pc EXCEPT ![i] = "sub"]
                        /\ UNCHANGED <<exec, ret>>
       ELSE /\ pc' = [pc EXCEPT ![i] = "sub"]
            /\ UNCHANGED <<step, trace, exec, ret>>
    /\ UNCHANGED getter
    /\ UNCHANGED chainVars
    /\ UNCHANGED funVars
    /\ UNCHANGED aggVars

\* err1 and err2 as executeWithRecursion holds them once it is past fCom
Err1(i) == step[i].class

Err2(i) == IF step[i].code = None THEN NotImplementedError ELSE step[i].code

\* if fSub != nil: the getter of the sub communicator is entered;
\* else err3 = NotImplemented and the closing test decides
SubStep(i) ==
    /\ pc[i] = "sub"
    /\ IF i < depth
       THEN /\ pc' = [pc EXCEPT ![i] = "wait", ![i + 1] = "gate"]
            /\ trace' = Append(trace, <<i, "sub">>)
            /\ UNCHANGED <<exec, ret>>
       ELSE /\ Return(i, FinalError(Err1(i), Err2(i), NotImplementedError))
            /\ trace' = trace
    /\ UNCHANGED <<getter, step>>
    /\ UNCHANGED chainVars
    /\ UNCHANGED funVars
    /\ UNCHANGED aggVars

\* value, err3 = fSub(args...) has returned
SubReturn(i) ==
    /\ pc[i] = "wait"
    /\ i < depth
    /\ pc[i + 1] = "done"
    /\ LET r3 == ret[i + 1] IN
        /\ step' = [step EXCEPT ![i].sub = r3]
        /\ IF ReturnsAfterSub(r3)
           THEN Return(i, r3)
           ELSE Return(i, FinalError(Err1(i), Err2(i), r3))
    /\ UNCHANGED <<getter, trace>>
    /\ UNCHANGED chainVars
    /\ UNCHANGED funVars
    /\ UNCHANGED aggVars

(***************************************************************************)
(* The component aggregators GetCPUComponent, GetUPSComponent,             *)
(* GetSBCComponent, GetServerComponent, GetDiskComponent and               *)
(* GetHardwareHealthComponent, called on the head.  The record keeps, per  *)
(* field, whether it has been set.                                         *)
(***************************************************************************)
\* AggregatorGateRejects with the guard missing
AggregatorGateRejects_NoGate(has) == FALSE

\* the guard at the top of every aggregator: TRUE when it returns ComponentNotFound
AggregatorGateRejects(has) == ~has

\* AbortsAggregator with NotFound aborting as well
AbortsAggregator_OnNotFound(err) == ~IsNotImplementedError(err)

\* AbortsAggregator with every failure swallowed
AbortsAggregator_Never(err) == FALSE

\* the test on the error of a constituent property: TRUE when the aggregator aborts
AbortsAggregator(err) == ~IsNotFoundError(err) /\ ~IsNotImplementedError(err)

\* AggregatorResult with the test of `empty` missing
AggregatorResult_EmptyRecordReturned(k, rec, empty) == [kind |-> "ok", rec |-> rec]

\* the outcome when every property has been tried
AggregatorResult(k, rec, empty) ==
    IF empty THEN [kind |-> "NotFound", rec |-> EmptyRecord(k)]
    ELSE [kind |-> "ok", rec |-> rec]

\* the resolution state while no getter has been entered
ResolutionIdle ==
    /\ getter' = "none"
    /\ pc' = [i \in Nodes |-> "idle"]
    /\ step' = [i \in Nodes |-> NoSteps]
    /\ exec' = [i \in Nodes |-> None]
    /\ ret' = [i \in Nodes |-> None]
    /\ trace' = <<>>

\* the aggregator of component k is called: the gate, then the first property getter
GetComponent(k) ==
    /\ Idle
    /\ aggIdx = 0
    /\ k = component
    /\ k \in AggComponents
    /\ agg' = k
    /\ aggRec' = EmptyRecord(k)
    /\ aggEmpty' = TRUE
    /\ IF AggregatorGateRejects(hasAvailableComponent[1])
       THEN /\ aggRet' = [kind |-> "ComponentNotFound", rec |-> EmptyRecord(k)]
            /\ aggIdx' = 0
            /\ aggCalls' = <<>>
            /\ ResolutionIdle
       ELSE /\ aggRet' = None
            /\ aggIdx' = 1
            /\ aggCalls' = <<Properties(k)[1]>>
            /\ Enter(Properties(k)[1])
    /\ UNCHANGED chainVars
    /\ UNCHANGED funVars

\* the head's getter of property aggIdx has returned: the aggregator tests the
\* error, sets the field, and goes on to the next property or returns
AggProperty ==
    /\ aggIdx >= 1
    /\ pc[1] = "done"
    /\ LET props == Properties(agg)
           r == ret[1]
           rec == IF r.kind = "ok" THEN [aggRec EXCEPT ![props[aggIdx]] = TRUE] ELSE aggRec
           empty == IF r.kind = "ok" THEN FALSE ELSE aggEmpty
       IN  IF r.kind # "ok" /\ AbortsAggregator(r)
           THEN /\ aggRet' = [kind |-> r.kind, rec |-> EmptyRecord(agg)]
                /\ aggIdx' = 0
                /\ UNCHANGED <<aggRec, aggEmpty, aggCalls>>
                /\ UNCHANGED resVars
           ELSE /\ aggRec' = rec
                /\ aggEmpty' = empty
                /\ IF aggIdx < Len(props)
                   THEN /\ aggIdx' = aggIdx + 1
                        /\ aggCalls' = Append(aggCalls, props[aggIdx + 1])
                        /\ aggRet' = aggRet
                        /\ Enter(props[aggIdx + 1])
                   ELSE /\ aggIdx' = 0
                        /\ aggRet' = AggregatorResult(agg, rec, empty)
                        /\ UNCHANGED aggCalls
                        /\ UNCHANGED resVars
    /\ UNCHANGED agg
    /\ UNCHANGED chainVars
    /\ UNCHANGED funVars

Next ==
    \/ \E g \in Getters : Call(g)
    \/ \E i \in Nodes : Gate(i)
    \/ \E i \in Nodes : ClassStep(i)
    \/ \E i \in Nodes : CodeStep(i)
    \/ \E i \in Nodes : SubStep(i)
    \/ \E i \in Nodes : SubReturn(i)

Spec == Init /\ [][Next]_vars

NextAgg ==
    \/ \E k \in AggComponents : GetComponent(k)
    \/ AggProperty
    \/ \E i \in Nodes : Gate(i)
    \/ \E i \in Nodes : ClassStep(i)
    \/ \E i \in Nodes : CodeStep(i)
    \/ \E i \in Nodes : SubStep(i)
    \/ \E i \in Nodes : SubReturn(i)

SpecAgg == InitAgg /\ [][NextAgg]_vars

(***************************************************************************)
(* GetIdentifyProperties, called on a communicator of the chain: it calls  *)
(* the five identity getters of the head, each with the context as it is   *)
(* then.  ident.props is dev.Properties, ident.ctx the properties of the   *)
(* dev the context was last built from (a copy: dev is passed by value);   *)
(* calls, ctxs and results record each getter called, the context it was   *)
(* given and what it returned.                                             *)
(***************************************************************************)
InitIdentify == InitChain(IdMaxDepth, {"none"}) /\ InitWork /\ InitFun

\* AbortsIdentify with NotFound aborting as well
AbortsIdentify_OnNotFound(err) == ~IsNotImplementedError(err)

\* the test on the error of an identity getter: TRUE when the bundle is abandoned
AbortsIdentify(err) == ~IsNotFoundError(err) /\ ~IsNotImplementedError(err)

\* ContextAfter with the context never renewed
ContextAfter_NeverFolded(g, ctx, props) == ctx

\* the context after getter g succeeded and its field was set in props:
\* ctx = device.NewContextWithDeviceProperties(ctx, dev), except after the last getter
ContextAfter(g, ctx, props) ==
    IF g = "GetOSVersion" THEN ctx ELSE props

GetIdentifyProperties ==
    /\ Idle
    /\ ident.idx = 0
    /\ ident' = [idx |-> 1, props |-> EmptyProperties, ctx |-> EmptyProperties,
                 calls |-> <<IdentifyProperties[1]>>, ctxs |-> <<EmptyProperties>>,
                 results |-> <<>>, ret |-> None]
    /\ Enter(IdentifyProperties[1])
    /\ UNCHANGED <<chainVars, aggVars, norm, reader, otherVars>>

\* the head's getter of field ident.idx has returned: the error is tested, the field
\* set and folded into the context, and the next getter is called or the bundle returned
IdentifyProperty ==
    /\ ident.idx >= 1
    /\ pc[1] = "done"
    /\ LET g == IdentifyProperties[ident.idx]
           r == ret[1]
           props == IF r.kind = "ok" THEN [ident.props EXCEPT ![g] = Some(r.val)]
                    ELSE ident.props
           ctx == IF r.kind = "ok" THEN ContextAfter(g, ident.ctx, props) ELSE ident.ctx
           results == Append(ident.results, r)
       IN  IF r.kind # "ok" /\ AbortsIdentify(r)
           THEN /\ ident' = [ident EXCEPT !.idx = 0, !.results = results,
                                          !.ret = [kind |-> r.kind, props |-> EmptyProperties]]
                /\ UNCHANGED resVars
           ELSE IF ident.idx < Len(IdentifyProperties)
           THEN /\ ident' = [ident EXCEPT
                                !.idx = @ + 1, !.props = props, !.ctx = ctx,
                                !.calls = Append(@, IdentifyProperties[ident.idx + 1]),
                                !.ctxs = Append(@, ctx), !.results = results]
                /\ Enter(IdentifyProperties[ident.idx + 1])
           ELSE /\ ident' = [ident EXCEPT
                                !.idx = 0, !.props = props, !.ctx = ctx, !.results = results,
                                !.ret = [kind |-> "ok", props |-> props]]
                /\ UNCHANGED resVars
    /\ UNCHANGED <<chainVars, aggVars, norm, reader, otherVars>>

NextIdentify ==
    \/ GetIdentifyProperties
    \/ IdentifyProperty
    \/ \E i \in Nodes : Gate(i)
    \/ \E i \in Nodes : ClassStep(i)
    \/ \E i \in Nodes : CodeStep(i)
    \/ \E i \in Nodes : SubStep(i)
    \/ \E i \in Nodes : SubReturn(i)

SpecIdentify == InitIdentify /\ [][NextIdentify]_vars

(***************************************************************************)
(* GetInterfaces over a chain whose code communicators may be the TiMOS    *)
(* one: its GetInterfaces starts by calling GetInterfaces of its parent,   *)
(* fails as the parent did, or fails on its own lookups, or returns the    *)
(* parent's list.  When the call has returned, the parent's frames are     *)
(* gone; executeWithRecursion may enter the parent a second time.          *)
(***************************************************************************)
InitIf == InitChain(MaxDepth, {"interfaces"}) /\ InitWork /\ InitFun

\* interfaces, err := c.sub.GetInterfaces(ctx)
CodeDelegate(i) ==
    /\ pc[i] = "code"
    /\ codeCommunicator[i]
    /\ getter = "GetInterfaces"
    /\ i < depth
    /\ pc' = [pc EXCEPT ![i] = "deleg", ![i + 1] = "gate"]
    /\ trace' = Append(trace, <<i, "code">>)
    /\ UNCHANGED <<getter, step, exec, ret>>
    /\ UNCHANGED chainVars
    /\ UNCHANGED funVars
    /\ UNCHANGED aggVars

\* what the override returns once its parent has answered r
DelegateOutcomes(r) == IF r.kind # "ok" THEN {r} ELSE {Ok(r.val), HardError}

\* the override returns r2 to executeWithRecursion of node i
CodeDelegateReturn(i) ==
    /\ pc[i] = "deleg"
    /\ i < depth
    /\ pc[i + 1] = "done"
    /\ \E r2 \in DelegateOutcomes(ret[i + 1]) :
        /\ step' = [j \in Nodes |-> IF j = i THEN [step[i] EXCEPT !.code = r2]
                                     ELSE IF j > i THEN NoSteps ELSE step[j]]
        /\ pc' = [j \in Nodes |-> IF j = i THEN (IF ReturnsAfterCom(r2) THEN "done" ELSE "sub")
                                   ELSE IF j > i THEN "idle" ELSE pc[j]]
        /\ exec' = [j \in Nodes |-> IF j = i THEN (IF ReturnsAfterCom(r2) THEN r2 ELSE exec[i])
                                     ELSE IF j > i THEN None ELSE exec[j]]
        /\ ret' = [j \in Nodes |-> IF j = i
                                    THEN (IF ReturnsAfterCom(r2)
                                          THEN GetterResult(getter, i, r2) ELSE ret[i])
                                    ELSE IF j > i THEN None ELSE ret[j]]
    /\ UNCHANGED <<getter, trace>>
    /\ UNCHANGED chainVars
    /\ UNCHANGED funVars
    /\ UNCHANGED aggVars

NextIf ==
    \/ \E g \in InterfaceGetters : Call(g)
    \/ \E i \in Nodes : Gate(i)
    \/ \E i \in Nodes : ClassStep(i)
    \/ \E i \in Nodes : CodeStep(i)
    \/ \E i \in Nodes : CodeDelegate(i)
    \/ \E i \in Nodes : CodeDelegateReturn(i)
    \/ \E i \in Nodes : SubStep(i)
    \/ \E i \in Nodes : SubReturn(i)

SpecIf == InitIf /\ [][NextIf]_vars

(***************************************************************************)
(* normalizeInterfaces applied to a list of interfaces.  The loop assigns  *)
(* into the slice it was given and returns that slice.                     *)
(***************************************************************************)
\* a single communicator that resolves nothing
NoChain ==
    /\ depth = 1
    /\ codeCommunicator = [i \in 1..1 |-> FALSE]
    /\ component = "none"
    /\ hasAvailableComponent = [i \in 1..1 |-> FALSE]

InitNorm ==
    /\ NoChain
    /\ InitWork
    /\ InitOther
    /\ ident = IdentIdle
    /\ reader = ReaderIdle
    /\ \E l \in IfLists(MaxIfs) :
         norm = [done |-> FALSE, arg |-> l, slice |-> l, res |-> <<>>, twice |-> FALSE, again |-> <<>>]

Normalize ==
    /\ ~norm.done
    /\ norm' = [norm EXCEPT !.done = TRUE,
                            !.slice = normalizeInterfaces(norm.slice),
                            !.res = normalizeInterfaces(norm.slice)]
    /\ UNCHANGED <<chainVars, resVars, aggVars, ident, reader, otherVars>>

\* normalizeInterfaces called on the list it has returned
NormalizeAgain ==
    /\ norm.done
    /\ ~norm.twice
    /\ norm' = [norm EXCEPT !.twice = TRUE,
                            !.slice = normalizeInterfaces(norm.slice),
                            !.again = normalizeInterfaces(norm.slice)]
    /\ UNCHANGED <<chainVars, resVars, aggVars, ident, reader, otherVars>>

NextNorm == Normalize \/ NormalizeAgain

SpecNorm == InitNorm /\ [][NextNorm]_vars

(***************************************************************************)
(* The query-tree readers.  A deviceClassOIDs maps labels to readers, each *)
(* a deviceClassOID (one OID to walk) or a deviceClassOIDs again.  The     *)
(* device answers the walk of an OID with a failure or with responses;     *)
(* a response has an object path, kept as its dot-separated components,    *)
(* and a value.  Strings that are parsed are sequences of characters.      *)
(***************************************************************************)
Labels == {"X", "Y"}

OIDs == {"a", "b"}

Leaf(o) == [type |-> "leaf", oid |-> o]

Tree(kids) == [type |-> "tree", kids |-> kids]

\* the OID a leaf under label l walks
OIDFor(l) == IF l = "X" THEN "a" ELSE "b"

\* the deviceClassOIDs of at most d levels; a level maps some of the labels to a
\* leaf or to a deviceClassOIDs of the levels below
RECURSIVE Trees(_)
Trees(d) ==
    IF d = 0 THEN {}
    ELSE {Tree(kids) : kids \in UNION {
            {f \in [S -> {Leaf(o) : o \in OIDs} \cup Trees(d - 1)] :
                \A l \in S : f[l].type = "leaf" => f[l].oid = OIDFor(l)} : S \in SUBSET Labels}}

EmptyMap == [i \in {} |-> 0]

\* m[k] = v leaving alone a key that is there
Put_FirstKept(m, k, v) ==
    [x \in DOMAIN m \cup {k} |-> IF x \in DOMAIN m THEN m[x] ELSE v]

\* m[k] = v
Put(m, k, v) == [x \in DOMAIN m \cup {k} |-> IF x = k THEN v ELSE m[x]]

ReadOk(rows) == [kind |-> "ok", rows |-> rows]

\* return nil, err
ReadFail(k) == [kind |-> k]

Digits == <<"0", "1", "2", "3", "4", "5", "6", "7", "8", "9">>

IsDigit(c) == \E n \in 1..Len(Digits) : Digits[n] = c

DigitValue(c) == (CHOOSE n \in 1..Len(Digits) : Digits[n] = c) - 1

RECURSIVE ParseDigits(_, _)
ParseDigits(str, acc) ==
    IF str = <<>> THEN acc ELSE ParseDigits(Tail(str), acc * 10 + DigitValue(Head(str)))

\* strconv.Atoi: an optional sign, then one or more decimal digits
Atoi(str) ==
    LET signed == str # <<>> /\ Head(str) \in {"+", "-"}
        body == IF signed THEN Tail(str) ELSE str
    IN  IF body = <<>> \/ \E k \in 1..Len(body) : ~IsDigit(body[k])
        THEN [ok |-> FALSE]
        ELSE [ok |-> TRUE,
              v |-> IF signed /\ Head(str) = "-" THEN 0 - ParseDigits(body, 0)
                    ELSE ParseDigits(body, 0)]

\* LastComponent taking the first component
LastComponent_First(oid) == IF oid = <<>> THEN <<>> ELSE oid[1]

\* oid[len(oid)-1] of strings.Split(response.GetOID(), "."); the empty path splits
\* into one empty component
LastComponent(oid) == IF oid = <<>> THEN <<>> ELSE oid[Len(oid)]

\* d.operators.apply: the pipeline fails on the values it cannot convert
OperatorsApply(raw) ==
    IF raw = "bad" THEN [ok |-> FALSE] ELSE [ok |-> TRUE, v |-> [applied |-> raw]]

\* ReadResponses going on to the next response when the pipeline fails
RECURSIVE ReadResponses_PipelineFailureSkipped(_, _)
ReadResponses_PipelineFailureSkipped(resps, result) ==
    IF resps = <<>> THEN ReadOk(result)
    ELSE LET response == Head(resps) IN
         IF ~response.get THEN ReadFail("error")
         ELSE IF response.raw # ""
         THEN LET resNormalized == OperatorsApply(response.raw)
                  index == Atoi(LastComponent(response.oid))
              IN  IF ~resNormalized.ok
                  THEN ReadResponses_PipelineFailureSkipped(Tail(resps), result)
                  ELSE IF ~index.ok THEN ReadFail("error")
                  ELSE ReadResponses_PipelineFailureSkipped(
                           Tail(resps), Put(result, index.v, resNormalized.v))
         ELSE ReadResponses_PipelineFailureSkipped(Tail(resps), result)

\* ReadResponses converting and indexing the empty values too
RECURSIVE ReadResponses_EmptyValueRead(_, _)
ReadResponses_EmptyValueRead(resps, result) ==
    IF resps = <<>> THEN ReadOk(result)
    ELSE LET response == Head(resps) IN
         IF ~response.get THEN ReadFail("error")
         ELSE LET resNormalized == OperatorsApply(response.raw)
                  index == Atoi(LastComponent(response.oid))
              IN  IF ~resNormalized.ok THEN ReadFail("error")
                  ELSE IF ~index.ok THEN ReadFail("error")
                  ELSE ReadResponses_EmptyValueRead(
                           Tail(resps), Put(result, index.v, resNormalized.v))

\* the loop of deviceClassOID.readOID over the responses of the walk
RECURSIVE ReadResponses(_, _)
ReadResponses(resps, result) ==
    IF resps = <<>> THEN ReadOk(result)
    ELSE LET response == Head(resps) IN
         IF ~response.get THEN ReadFail("error")
         ELSE IF response.raw # ""
         THEN LET resNormalized == OperatorsApply(response.raw)
                  index == Atoi(LastComponent(response.oid))
              IN  IF ~resNormalized.ok THEN ReadFail("error")
                  ELSE IF ~index.ok THEN ReadFail("error")
                  ELSE ReadResponses(Tail(resps), Put(result, index.v, resNormalized.v))
         ELSE ReadResponses(Tail(resps), result)

\* (d *deviceClassOID) readOID
deviceClassOID_readOID(d, dev) ==
    IF ~dev.snmp THEN ReadFail("error")
    ELSE LET snmpResponse == dev.walk[d.oid] IN
         IF snmpResponse.kind # "ok"
         THEN (IF IsNotFoundError(snmpResponse) THEN ReadFail("NotFound") ELSE ReadFail("error"))
         ELSE ReadResponses(snmpResponse.resps, EmptyMap)

\* SkipsLabel with every failure of a label skipped
SkipsLabel_Always(err) == TRUE

\* SkipsLabel never holding: the error of the first failing label is returned
SkipsLabel_Never(err) == FALSE

\* the test on the error of a label's reader: TRUE when the label is skipped
SkipsLabel(err) == IsNotFoundError(err)

\* GroupInto with the row replaced instead of extended
GroupInto_RowReplaced(result, label, res) ==
    [i \in DOMAIN result \cup DOMAIN res |->
        IF i \in DOMAIN res THEN Put(EmptyMap, label, res[i]) ELSE result[i]]

\* for ifIndex, v := range res: result[ifIndex][label] = v, the row created when new
GroupInto(result, label, res) ==
    [i \in DOMAIN result \cup DOMAIN res |->
        IF i \in DOMAIN res
        THEN Put(IF i \in DOMAIN result THEN result[i] ELSE EmptyMap, label, res[i])
        ELSE result[i]]

\* the labels of kids in the order the map iteration happens to visit them
Iteration(kids, order) == SelectSeq(order, LAMBDA l : l \in DOMAIN kids)

RECURSIVE readOID(_, _, _)
RECURSIVE ReadLabels(_, _, _, _, _)
\* the loop of deviceClassOIDs.readOID over the labels still to visit
ReadLabels(kids, todo, dev, order, result) ==
    IF todo = <<>> THEN ReadOk(result)
    ELSE LET label == Head(todo)
             res == readOID(kids[label], dev, order)
         IN  IF res.kind # "ok"
             THEN (IF SkipsLabel(res)
                   THEN ReadLabels(kids, Tail(todo), dev, order, result)
                   ELSE ReadFail(res.kind))
             ELSE ReadLabels(kids, Tail(todo), dev, order, GroupInto(result, label, res.rows))

\* deviceClassOIDs.readOID failing with NotFound when every label was skipped
deviceClassOIDs_readOID_AllSkippedIsNotFound(d, dev, order) ==
    LET res == ReadLabels(d.kids, Iteration(d.kids, order), dev, order, EmptyMap)
    IN  IF /\ res.kind = "ok"
           /\ DOMAIN d.kids # {}
           /\ \A l \in DOMAIN d.kids : readOID(d.kids[l], dev, order).kind = "NotFound"
        THEN ReadFail("NotFound")
        ELSE res

\* (d *deviceClassOIDs) readOID
deviceClassOIDs_readOID(d, dev, order) ==
    ReadLabels(d.kids, Iteration(d.kids, order), dev, order, EmptyMap)

\* reader.readOID(ctx) on an oidReader
readOID(r, dev, order) ==
    IF r.type = "leaf" THEN deviceClassOID_readOID(r, dev)
    ELSE deviceClassOIDs_readOID(r, dev, order)

\* a response with trailing path component last and value raw
Response(last, raw) == [oid |-> << <<"1">>, <<"3">>, last >>, get |-> TRUE, raw |-> raw]

\* what the device answers to the walk of one OID
Walks ==
    { [kind |-> "NotFound"], [kind |-> "error"],
      [kind |-> "ok", resps |-> <<>>],
      [kind |-> "ok", resps |-> <<Response(<<"1">>, "v"), Response(<<"2">>, "w")>>],
      [kind |-> "ok", resps |-> <<Response(<<"2">>, "u")>>],
      [kind |-> "ok", resps |-> <<Response(<<"1">>, "v"), Response(<<"x">>, "w")>>],
      [kind |-> "ok", resps |-> <<Response(<<"5">>, "u"), Response(<<"1">>, "v"),
                                  Response(<<"3">>, "w")>>] }

\* the orders in which a map over the labels can be iterated
Orders == {o \in [1..Cardinality(Labels) -> Labels] : \A l \in Labels : \E k \in DOMAIN o : o[k] = l}

InitRead ==
    /\ NoChain
    /\ InitWork
    /\ InitOther
    /\ norm = [done |-> FALSE, arg |-> <<>>, slice |-> <<>>, res |-> <<>>, twice |-> FALSE, again |-> <<>>]
    /\ ident = IdentIdle
    /\ \E t \in Trees(MaxTreeDepth), w \in [OIDs -> Walks], o \in Orders :
         reader = [done |-> FALSE, tree |-> t, device |-> [snmp |-> TRUE, walk |-> w],
                   order |-> o, res |-> None, prop |-> None]

\* the key the inner loop of getProperty ends with, taking the largest
SmallestIndex_Largest(groups) == CHOOSE i \in DOMAIN groups : \A j \in DOMAIN groups : j <= i

\* the key the inner loop of getProperty ends with: for index := range groups
SmallestIndex(groups) == CHOOSE i \in DOMAIN groups : \A j \in DOMAIN groups : i <= j

\* delete(groups, k)
Delete(groups, k) == [i \in DOMAIN groups \ {k} |-> groups[i]]

\* the outer loop of getProperty with size iterations to go
RECURSIVE SortGroups(_, _, _)
SortGroups(groups, size, res) ==
    IF size = 0 THEN res
    ELSE LET smallestIndex == SmallestIndex(groups)
         IN  SortGroups(Delete(groups, smallestIndex), size - 1,
                        Append(res, groups[smallestIndex]))

\* getProperty failing with NotFound when there is no group
getProperty_EmptyIsNotFound(oids, dev, order) ==
    LET groups == deviceClassOIDs_readOID(oids, dev, order)
    IN  IF groups.kind # "ok" THEN ReadFail(groups.kind)
        ELSE IF DOMAIN groups.rows = {} THEN ReadFail("NotFound")
        ELSE [kind |-> "ok",
              groups |-> SortGroups(groups.rows, Cardinality(DOMAIN groups.rows), <<>>)]

\* (s *snmpGroupPropertyReader) getProperty; every group of a deviceClassOIDs read
\* is a map[string]interface{}, so the type assertion of line 53 succeeds
getProperty(oids, dev, order) ==
    LET groups == deviceClassOIDs_readOID(oids, dev, order)
    IN  IF groups.kind # "ok" THEN ReadFail(groups.kind)
        ELSE [kind |-> "ok",
              groups |-> SortGroups(groups.rows, Cardinality(DOMAIN groups.rows), <<>>)]

\* reader.readOID(ctx) on a deviceClassOIDs
ReadTree ==
    /\ ~reader.done
    /\ reader' = [reader EXCEPT !.done = TRUE,
                                !.res = deviceClassOIDs_readOID(reader.tree, reader.device,
                                                                reader.order)]
    /\ UNCHANGED <<chainVars, resVars, aggVars, norm, ident, otherVars>>

\* s.getProperty(ctx): reader.res is its local groups as readOID returned it,
\* reader.prop what it returns
GetProperty ==
    /\ ~reader.done
    /\ reader' = [reader EXCEPT !.done = TRUE,
                                !.res = deviceClassOIDs_readOID(reader.tree, reader.device,
                                                                reader.order),
                                !.prop = getProperty(reader.tree, reader.device, reader.order)]
    /\ UNCHANGED <<chainVars, resVars, aggVars, norm, ident, otherVars>>

NextRead == ReadTree \/ GetProperty

SpecRead == InitRead /\ [][NextRead]_vars

(***************************************************************************)
(* One deviceClassOID read against every short walk the device can answer. *)
(***************************************************************************)
\* the trailing path components a response can have
TrailingComponents == {<<"1">>, <<"2">>, <<"0", "1">>, <<"-", "1">>, <<"x">>, <<>>}

\* the responses of a walk: the value cannot be extracted, or it is empty, or the
\* pipeline converts it ("v", "w"), or the pipeline fails on it ("bad")
Responses ==
    {Response(c, raw) : c \in TrailingComponents, raw \in {"", "v", "w", "bad"}}
    \cup {[Response(c, "") EXCEPT !.get = FALSE] : c \in TrailingComponents}

\* the answers to a walk of at most n responses
AllWalks(n) ==
    {[kind |-> "NotFound"], [kind |-> "error"]}
    \cup {[kind |-> "ok", resps |-> r] : r \in UNION {[1..k -> Responses] : k \in 0..n}}

InitLeaf ==
    /\ NoChain
    /\ InitWork
    /\ InitOther
    /\ norm = [done |-> FALSE, arg |-> <<>>, slice |-> <<>>, res |-> <<>>, twice |-> FALSE, again |-> <<>>]
    /\ ident = IdentIdle
    /\ \E w \in AllWalks(MaxWalk), c \in BOOLEAN :
         reader = [done |-> FALSE, tree |-> Leaf("a"),
                   device |-> [snmp |-> c, walk |-> [o \in OIDs |-> w]],
                   order |-> <<>>, res |-> None, prop |-> None]

\* reader.readOID(ctx) on a deviceClassOID
ReadLeaf ==
    /\ ~reader.done
    /\ reader' = [reader EXCEPT !.done = TRUE,
                                !.res = deviceClassOID_readOID(reader.tree, reader.device)]
    /\ UNCHANGED <<chainVars, resVars, aggVars, norm, ident, otherVars>>

NextLeaf == ReadLeaf

SpecLeaf == InitLeaf /\ [][NextLeaf]_vars

(***************************************************************************)
(* Merging deviceClassOIDs.  The readers live in a heap, address -> node:   *)
(* a map holds the addresses of its readers, as the Go map holds pointers,  *)
(* so that a reader shared by two maps and a write to a map that was passed *)
(* in are both visible.  The address of a node names the layer it was made *)
(* for and its position in that layer, the path from the root read as a    *)
(* number in base 3 with X = 1 and Y = 2.                                   *)
(***************************************************************************)
\* the address of the map of layer L
Root(L) == [layer |-> L, pos |-> 0]

\* the address of the reader under label l of the map at addr
Child(addr, l) == [layer |-> addr.layer, pos |-> 3 * addr.pos + (IF l = "X" THEN 1 ELSE 2)]

\* the maps of at most d levels that are merged; only label X nests
RECURSIVE LayerTrees(_)
LayerTrees(d) ==
    LET kidsOfX == {Leaf(OIDFor("X"))} \cup (IF d > 1 THEN LayerTrees(d - 1) ELSE {})
        kidsOfY == {Leaf(OIDFor("Y"))}
    IN  {Tree(EmptyMap)}
        \cup {Tree(Put(EmptyMap, "X", x)) : x \in kidsOfX}
        \cup {Tree(Put(EmptyMap, "Y", y)) : y \in kidsOfY}
        \cup {Tree(Put(Put(EmptyMap, "X", x), "Y", y)) : x \in kidsOfX, y \in kidsOfY}

\* the heap holding reader r at address addr and what it holds below
RECURSIVE Alloc(_, _)
Alloc(r, addr) ==
    IF r.type = "leaf" THEN Put(EmptyMap, addr, r)
    ELSE LET subs == {Alloc(r.kids[l], Child(addr, l)) : l \in DOMAIN r.kids}
         IN  [a \in {addr} \cup UNION {DOMAIN h : h \in subs} |->
                 IF a = addr THEN Tree([l \in DOMAIN r.kids |-> Child(addr, l)])
                 ELSE (CHOOSE h \in subs : a \in DOMAIN h)[a]]

\* two heaps over different addresses, as one
Join(g, h) == [a \in DOMAIN g \cup DOMAIN h |-> IF a \in DOMAIN g THEN g[a] ELSE h[a]]

\* NewMap returning the receiver's own map
NewMap_InPlace(d, new) == d

\* devClassOIDsNew := make(deviceClassOIDs): the map is a new one
NewMap(d, new) == new

\* BothSubtrees never holding
BothSubtrees_Never(heap, old, overwrite) == FALSE

\* okOld && okNew: both readers are *deviceClassOIDs
BothSubtrees(heap, old, overwrite) ==
    heap[old].type = "tree" /\ heap[overwrite].type = "tree"

\* Overwrite keeping the reader the map already has
Overwrite_BaseKept(kids, k, v) == IF k \in DOMAIN kids THEN kids ELSE Put(kids, k, v)

\* devClassOIDsNew[k] = v
Overwrite(kids, k, v) == Put(kids, k, v)

RECURSIVE merge(_, _, _, _, _)
RECURSIVE MergeLabels(_, _, _, _, _)
\* for k, v := range overwrite, with the labels in todo still to visit; new is the
\* address of devClassOIDsNew
MergeLabels(heap, todo, overwrite, new, order) ==
    IF todo = <<>> THEN heap
    ELSE LET k == Head(todo)
             v == heap[overwrite].kids[k]
             kids == heap[new].kids
         IN  IF k \in DOMAIN kids /\ BothSubtrees(heap, kids[k], v)
             THEN LET mergedOIDs == merge(heap, kids[k], v, Child(new, k), order)
                      merged == mergedOIDs.heap
                  IN  MergeLabels(
                          Put(merged, new, Tree(Put(merged[new].kids, k, mergedOIDs.at))),
                          Tail(todo), overwrite, new, order)
             ELSE MergeLabels(Put(heap, new, Tree(Overwrite(kids, k, v))),
                              Tail(todo), overwrite, new, order)

\* (d *deviceClassOIDs) merge(overwrite): the heap afterwards and the address of the
\* map returned; fresh is an address not in use
merge(heap, d, overwrite, fresh, order) ==
    LET new == NewMap(d, fresh)
        copied == Put(heap, new, Tree(heap[d].kids))
    IN  [heap |-> MergeLabels(copied, Iteration(heap[overwrite].kids, order),
                              overwrite, new, order),
         at |-> new]

InitMerge ==
    /\ NoChain
    /\ InitWork
    /\ norm = [done |-> FALSE, arg |-> <<>>, slice |-> <<>>, res |-> <<>>, twice |-> FALSE, again |-> <<>>]
    /\ ident = IdentIdle
    /\ reader = ReaderIdle
    /\ sap = SapIdle
    /\ runs = RunsIdle
    /\ \E A \in LayerTrees(MaxMergeDepth), B \in LayerTrees(MaxMergeDepth),
          C \in LayerTrees(MaxMergeDepth), o \in Orders :
         layers = [step |-> 0,
                   heap |-> Join(Alloc(A, Root("A")), Join(Alloc(B, Root("B")), Alloc(C, Root("C")))),
                   order |-> o, ab |-> <<>>, abc |-> <<>>]

\* ab := a.merge(b)
MergeAB ==
    /\ layers.step = 0
    /\ LET m == merge(layers.heap, Root("A"), Root("B"), Root("AB"), layers.order)
       IN  layers' = [layers EXCEPT !.step = 1, !.heap = m.heap, !.ab = m.at]
    /\ UNCHANGED <<chainVars, resVars, aggVars, norm, ident, reader, sap, runs>>

\* abc := ab.merge(c)
MergeABC ==
    /\ layers.step = 1
    /\ LET m == merge(layers.heap, layers.ab, Root("C"), Root("ABC"), layers.order)
       IN  layers' = [layers EXCEPT !.step = 2, !.heap = m.heap, !.abc = m.at]
    /\ UNCHANGED <<chainVars, resVars, aggVars, norm, ident, reader, sap, runs>>

NextMerge == MergeAB \/ MergeABC

SpecMerge == InitMerge /\ [][NextMerge]_vars

(***************************************************************************)
(* timosSASCommunicator.GetInterfaces.  A row of the SAP table is the three *)
(* numbers that follow sapDescriptionsOID in the OID of its response.       *)
(***************************************************************************)
\* the decimal numeral of n, as a path segment of an OID shows it
RECURSIVE Numeral(_)
Numeral(n) ==
    IF n < 10 THEN <<Digits[n + 1]>>
    ELSE Append(Numeral(n \div 10), Digits[(n % 10) + 1])

\* strings.Split(strings.TrimPrefix(response.GetOID(), sapDescriptionsOID), "."):
\* the text before the first dot is empty
Suffix(row) == <<<<>>, Numeral(row[1]), Numeral(row[2]), Numeral(row[3])>>

RECURSIVE ParseBase(_, _, _)
ParseBase(str, base, acc) ==
    IF str = <<>> THEN acc ELSE ParseBase(Tail(str), base, acc * base + DigitValue(Head(str)))

\* strconv.ParseUint(s, 0, 64) on a string of decimal digits: base 0 takes the
\* base from the prefix, and a leading "0" makes the rest octal
ParseUint(str) ==
    IF str = <<>> \/ \E k \in 1..Len(str) : ~IsDigit(str[k]) THEN [ok |-> FALSE]
    ELSE LET base == IF Head(str) = "0" THEN 8 ELSE 10
             body == IF Head(str) = "0" THEN Tail(str) ELSE str
         IN  IF \E k \in 1..Len(body) : DigitValue(body[k]) >= base THEN [ok |-> FALSE]
             ELSE [ok |-> TRUE, v |-> ParseBase(body, base, 0)]

\* getInterfaceBySubIndex: the place in the list of the first interface with the index
getInterfaceBySubIndex(subIndex, interfaces) ==
    IF \E i \in 1..Len(interfaces) : interfaces[i].IfIndex = subIndex
    THEN [ok |-> TRUE,
          v |-> CHOOSE i \in 1..Len(interfaces) :
                    /\ interfaces[i].IfIndex = subIndex
                    /\ \A j \in 1..(i - 1) : interfaces[j].IfIndex # subIndex]
    ELSE [ok |-> FALSE]

\* getCounterFromSnmpGet(ctx, oid): a counter, or an error when the device does
\* not answer the lookup bad names
getCounterFromSnmpGet(bad, column, suffix) ==
    IF bad = [column |-> column, suffix |-> suffix] THEN [ok |-> FALSE]
    ELSE [ok |-> TRUE, v |-> [column |-> column, suffix |-> suffix]]

\* for _, response := range sapDescriptions, from row k on; interfaces is the
\* slice of the parent, written in place
RECURSIVE SapRows(_, _, _, _)
SapRows(rows, k, interfaces, bad) ==
    IF k > Len(rows) THEN [err |-> FALSE, slice |-> interfaces]
    ELSE LET suffix == Suffix(rows[k])
             physIndex == suffix[3]
             subID == suffix[4]
             subIndex == ParseUint(physIndex \o subID)
             i == getInterfaceBySubIndex(subIndex.v, interfaces)
             inbound == getCounterFromSnmpGet(bad, 4, <<suffix[2], physIndex, subID>>)
             outbound == getCounterFromSnmpGet(bad, 6, <<suffix[2], physIndex, subID>>)
         IN  IF ~subIndex.ok THEN [err |-> TRUE, slice |-> interfaces]
             ELSE IF ~i.ok THEN [err |-> TRUE, slice |-> interfaces]
             ELSE IF ~inbound.ok THEN [err |-> TRUE, slice |-> interfaces]
             ELSE IF ~outbound.ok THEN [err |-> TRUE, slice |-> interfaces]
             ELSE SapRows(rows, k + 1,
                          [interfaces EXCEPT ![i.v].SAP =
                              Some([Inbound |-> inbound.v, Outbound |-> outbound.v])],
                          bad)

\* (c *timosSASCommunicator) GetInterfaces: what it returns, what the slice the
\* parent returned holds afterwards, and whether SNMPWalk has been called
timosSAS_GetInterfaces(parent, con, walk, bad) ==
    IF parent.kind # "ok"
    THEN [res |-> ReadFail(parent.kind), slice |-> <<>>, walked |-> FALSE]
    ELSE IF ~con THEN [res |-> ReadFail("error"), slice |-> parent.ifs, walked |-> FALSE]
    ELSE IF walk.kind # "ok"
    THEN [res |-> ReadFail("error"), slice |-> parent.ifs, walked |-> TRUE]
    ELSE LET r == SapRows(walk.rows, 1, parent.ifs, bad)
         IN  IF r.err THEN [res |-> ReadFail("error"), slice |-> r.slice, walked |-> TRUE]
             ELSE [res |-> [kind |-> "ok", ifs |-> r.slice], slice |-> r.slice,
                   walked |-> TRUE]

\* the second and third number of a row
SapPhysIndexes == {0, 1, 7}
SapSubIDs == {0, 3, 8, 10}

\* the rows the SAP table can have
SapTable == {<<1, p, q>> : p \in SapPhysIndexes, q \in SapSubIDs}

\* the indices the interfaces of the parent can have
SapIfIndexes == {8, 10, 73}

SapInterface(n) == [IfIndex |-> n, IfSpeed |-> Nil, IfHighSpeed |-> Nil, SAP |-> Nil]

\* what c.sub.GetInterfaces can return
SapParents ==
    {ReadFail("NotFound"), ReadFail("error")}
    \cup {[kind |-> "ok", ifs |-> l] :
             l \in UNION {[1..n -> {SapInterface(x) : x \in SapIfIndexes}] : n \in 0..MaxSapIfs}}

\* what the walk of sapDescriptionsOID can return
SapWalks ==
    {ReadFail("error")}
    \cup {[kind |-> "ok", rows |-> r] : r \in UNION {[1..n -> SapTable] : n \in 0..MaxSapRows}}

\* the counter lookup the device does not answer, if any: that of row k
SapBad(walk) ==
    {None} \cup (IF walk.kind # "ok" THEN {}
                 ELSE {[column |-> c, suffix |-> Tail(Suffix(walk.rows[k]))] :
                           c \in {4, 6}, k \in 1..Len(walk.rows)})

InitSAS ==
    /\ NoChain
    /\ InitWork
    /\ norm = [done |-> FALSE, arg |-> <<>>, slice |-> <<>>, res |-> <<>>, twice |-> FALSE, again |-> <<>>]
    /\ ident = IdentIdle
    /\ reader = ReaderIdle
    /\ layers = LayersIdle
    /\ runs = RunsIdle
    /\ \E parent \in SapParents, con \in BOOLEAN, walk \in SapWalks :
         \E bad \in SapBad(walk) :
            sap = [done |-> FALSE, parent |-> parent, con |-> con, walk |-> walk,
                   bad |-> bad, slice |-> <<>>, walked |-> FALSE, res |-> None]

\* c.GetInterfaces(ctx)
GetInterfacesSAS ==
    /\ ~sap.done
    /\ LET r == timosSAS_GetInterfaces(sap.parent, sap.con, sap.walk, sap.bad)
       IN  sap' = [sap EXCEPT !.done = TRUE, !.res = r.res, !.slice = r.slice,
                              !.walked = r.walked]
    /\ UNCHANGED <<chainVars, resVars, aggVars, norm, ident, reader, layers, runs>>

NextSAS == GetInterfacesSAS

SpecSAS == InitSAS /\ [][NextSAS]_vars

(***************************************************************************)
(* One property resolved twice on the same chain against the same device,  *)
(* the maps of the readers iterated in an order of their own each time.     *)
(***************************************************************************)
\* fClass of a class whose property is a group property read from the query tree
\* oids, None when the class does not define the property
ClassOutcome(oids, dev, order) ==
    IF oids = None THEN NotImplementedError
    ELSE LET p == getProperty(oids, dev, order)
         IN  IF p.kind = "ok" THEN Ok(p.groups) ELSE Fail(p.kind)

\* executeWithRecursion with r1, r2, r3 what fClass, fCom and fSub return when
\* they are called, None for a function that is nil
executeWithRecursion(r1, r2, r3) ==
    LET err2 == IF r2 = None THEN NotImplementedError ELSE r2
        err3 == IF r3 = None THEN NotImplementedError ELSE r3
    IN  IF ReturnsAfterClass(r1) THEN r1
        ELSE IF r2 # None /\ ReturnsAfterCom(r2) THEN r2
        ELSE IF r3 # None /\ ReturnsAfterSub(r3) THEN r3
        ELSE FinalError(r1, err2, err3)

\* the getter of node i of the chain, the parent's getter being fSub
RECURSIVE Resolution(_, _, _, _)
Resolution(chain, i, dev, order) ==
    executeWithRecursion(ClassOutcome(chain[i].oids, dev, order),
                         chain[i].com,
                         IF i < Len(chain) THEN Resolution(chain, i + 1, dev, order) ELSE None)

\* what the device answers to the walk of one OID
RunWalks == {w \in Walks : w.kind # "ok" \/ Len(w.resps) = 2}

\* a class of the chain: its query tree for the property, if it has one, and
\* what its code communicator answers, if it has one
RunClasses ==
    [oids : Trees(1) \cup {None},
     com : {None, NotImplementedError, NotFoundError, HardError, Ok("code")}]

InitRuns ==
    /\ NoChain
    /\ InitWork
    /\ norm = [done |-> FALSE, arg |-> <<>>, slice |-> <<>>, res |-> <<>>, twice |-> FALSE, again |-> <<>>]
    /\ ident = IdentIdle
    /\ reader = ReaderIdle
    /\ layers = LayersIdle
    /\ sap = SapIdle
    /\ \E chain \in UNION {[1..n -> RunClasses] : n \in 1..MaxRunChain},
          w \in [OIDs -> RunWalks], o \in [1..2 -> Orders] :
         runs = [n |-> 0, chain |-> chain, device |-> [snmp |-> TRUE, walk |-> w],
                 orders |-> o, out |-> <<>>]

\* one more resolution of the property at the head of the chain
Resolve ==
    /\ runs.n < 2
    /\ runs' = [runs EXCEPT
                   !.n = @ + 1,
                   !.out = Append(@, Resolution(runs.chain, 1, runs.device,
                                                runs.orders[runs.n + 1]))]
    /\ UNCHANGED <<chainVars, resVars, aggVars, norm, ident, reader, layers, sap>>

NextRuns == Resolve

SpecRuns == InitRuns /\ [][NextRuns]_vars

(***************************************************************************)
(* Properties of the resolution chain.                                      *)
(***************************************************************************)
\* step s of node i has been attempted (the sub step: the parent's getter was entered)
Attempted(i, s) == \E k \in 1..Len(trace) : trace[k] = <<i, s>>

\* no communicator behind node i has been entered
ParentsUntouched(i) ==
    \A j \in Nodes : j > i =>
        /\ pc[j] = "idle"
        /\ step[j] = NoSteps
        /\ \A k \in 1..Len(trace) : trace[k][1] # j

\* the override step of node i is absent or answered NotImplemented
OverrideSilent(i) == step[i].code = None \/ IsNotImplementedError(step[i].code)

\* C1: in executeWithRecursion, when the class step succeeds its value is what
\* the function returns and neither the override nor the parent step is
\* evaluated; when the override step succeeds its value is returned and the
\* parent step is not evaluated.
C1_SuccessReturnsImmediately ==
    \A i \in Nodes :
        /\ step[i].class.kind = "ok" =>
            /\ exec[i] = step[i].class
            /\ pc[i] = "done"
            /\ ~Attempted(i, "code")
            /\ ~Attempted(i, "sub")
            /\ ParentsUntouched(i)
        /\ step[i].code.kind = "ok" =>
            /\ exec[i] = step[i].code
            /\ pc[i] = "done"
            /\ ~Attempted(i, "sub")
            /\ ParentsUntouched(i)

\* the class step of a parent succeeded where an override and a further parent
\* were there to try; the head, whose override had said NotImplemented, got it
C1_Witness ==
    /\ depth >= 3
    /\ pc[1] = "done"
    /\ codeCommunicator[1]
    /\ codeCommunicator[2]
    /\ step[2].class.kind = "ok"
    /\ exec[2] = step[2].class
    /\ pc[3] = "idle"

\* C2 (as claimed): a NotFound from the class step or from the override step
\* does not end the resolution: the next available step (override after class,
\* parent after override) is attempted.
C2_NotFoundContinues ==
    \A i \in Nodes :
        pc[i] = "done" =>
            /\ (IsNotFoundError(step[i].class) /\ codeCommunicator[i]) => Attempted(i, "code")
            /\ (IsNotFoundError(step[i].class) /\ ~codeCommunicator[i] /\ i < depth)
                   => Attempted(i, "sub")
            /\ (IsNotFoundError(step[i].code) /\ i < depth) => Attempted(i, "sub")

\* r is a failure that is neither NotImplemented nor NotFound
IsHardFailure(r) ==
    r.kind \notin {"none", "ok", "NotImplemented", "NotFound"}

\* C3: a failure of the class, override or parent step that is neither
\* NotImplemented nor NotFound ends the resolution: no later step is evaluated
\* and that same failure is what executeWithRecursion and the getter return.
C3_HardFailureShortCircuits ==
    \A i \in Nodes :
        /\ IsHardFailure(step[i].class) =>
            /\ exec[i] = step[i].class
            /\ ret[i] = step[i].class
            /\ ~Attempted(i, "code")
            /\ ~Attempted(i, "sub")
            /\ ParentsUntouched(i)
        /\ IsHardFailure(step[i].code) =>
            /\ exec[i] = step[i].code
            /\ ret[i] = step[i].code
            /\ ~Attempted(i, "sub")
            /\ ParentsUntouched(i)
        /\ IsHardFailure(step[i].sub) =>
            /\ exec[i] = step[i].sub
            /\ ret[i] = step[i].sub

\* a hard failure at the class step of a parent that has an override and a parent
\* of its own, carried unchanged to the caller of the head
C3_Witness ==
    /\ depth >= 3
    /\ pc[1] = "done"
    /\ codeCommunicator[2]
    /\ step[2].class = HardError
    /\ step[1].sub = HardError
    /\ ret[1] = HardError
    /\ pc[3] = "idle"

\* C4: class step NotImplemented, override absent or NotImplemented, and the
\* parent's resolution of the same property succeeds: the getter returns the
\* parent's value (for GetInterfaces on the head: that value, normalized), at
\* every level of the chain.
C4_ParentValueReturned ==
    \A i \in Nodes :
        (/\ i < depth
         /\ pc[i] = "done"
         /\ IsNotImplementedError(step[i].class)
         /\ OverrideSilent(i)
         /\ ret[i + 1].kind = "ok")
        => /\ ret[i].kind = "ok"
           /\ ret[i].val.node = ret[i + 1].val.node
           /\ ret[i].val.step = ret[i + 1].val.step
           /\ ret[i].val.empty = ret[i + 1].val.empty
           /\ (getter # "GetInterfaces" => ret[i] = ret[i + 1])

\* the head returns a value that the class step of its grandparent produced
C4_Witness ==
    /\ depth >= 3
    /\ pc[1] = "done"
    /\ getter = "GetCountInterfaces"
    /\ ret[1].kind = "ok"
    /\ ret[1].val.node = 3
    /\ ret[1].val.step = "class"

\* C5: when every step of the chain from node i on answers NotImplemented (an
\* absent override and an absent parent counting as NotImplemented), the outcome
\* at node i is NotImplemented.
AllNotImplementedFrom(i) ==
    \A j \in Nodes : j >= i =>
        /\ IsNotImplementedError(step[j].class)
        /\ OverrideSilent(j)

C5_AllNotImplemented ==
    \A i \in Nodes :
        (pc[i] = "done" /\ AllNotImplementedFrom(i)) => ret[i] = NotImplementedError

\* a chain of three whose five or six steps all answered NotImplemented
C5_Witness ==
    /\ depth >= 3
    /\ pc[1] = "done"
    /\ AllNotImplementedFrom(1)
    /\ codeCommunicator[1]
    /\ ~codeCommunicator[2]
    /\ ret[1] = NotImplementedError

\* C6: class step NotImplemented, override absent or NotImplemented, and the
\* parent step returns NotFound: the outcome is NotFound.
C6_ParentNotFoundSurfaces ==
    \A i \in Nodes :
        (/\ pc[i] = "done"
         /\ IsNotImplementedError(step[i].class)
         /\ OverrideSilent(i)
         /\ IsNotFoundError(step[i].sub))
        => /\ exec[i].kind = "NotFound"
           /\ ret[i].kind = "NotFound"

\* the parent answered NotFound after the head's class and override said NotImplemented
C6_Witness ==
    /\ depth >= 2
    /\ pc[1] = "done"
    /\ codeCommunicator[1]
    /\ IsNotImplementedError(step[1].class)
    /\ IsNotImplementedError(step[1].code)
    /\ IsNotFoundError(step[1].sub)
    /\ ret[1].kind = "NotFound"

\* C7: GetVendor, GetModel, GetModelSeries, GetSerialNumber and GetOSVersion, at
\* every node: a resolution that succeeds with the empty string makes the getter
\* return NotFound, and no such getter returns success with an empty string.
C7_EmptyStringIsNotFound ==
    getter \in IdentifyGetters =>
        \A i \in Nodes :
            /\ ~(ret[i].kind = "ok" /\ ret[i].val.empty)
            /\ (exec[i].kind = "ok" /\ exec[i].val.empty) => ret[i] = NotFoundError

\* the override of a parent answered the empty string for the OS version
C7_Witness ==
    /\ getter = "GetOSVersion"
    /\ depth >= 2
    /\ pc[1] = "done"
    /\ exec[2].kind = "ok"
    /\ exec[2].val.empty
    /\ exec[2].val.step = "code"
    /\ ret[2] = NotFoundError
    /\ ret[1] = NotFoundError

\* C8 (as claimed): whatever the component kind and the getter, when the class
\* of the device does not have the component, the getter called on the head
\* fails with ComponentNotFound and evaluates no step.
C8_EveryGetterGated ==
    (/\ getter # "none"
     /\ ComponentOf(getter) \in Components
     /\ ~hasAvailableComponent[1]
     /\ pc[1] \notin {"idle", "gate"})
    => /\ pc[1] = "done"
       /\ ret[1] = ComponentNotFoundError
       /\ trace = <<>>

\* C9: an aggregator whose class lacks the component returns ComponentNotFound
\* with an empty record and invokes no property getter, hence no resolution
\* step.
C9_AggregatorGate ==
    (agg # "none" /\ ~hasAvailableComponent[1]) =>
        /\ aggRet = [kind |-> "ComponentNotFound", rec |-> EmptyRecord(agg)]
        /\ aggCalls = <<>>
        /\ getter = "none"
        /\ trace = <<>>
        /\ \A i \in Nodes : pc[i] = "idle" /\ step[i] = NoSteps

\* the UPS aggregator was called on a head whose class has no UPS component
C9_Witness ==
    /\ agg = "ups"
    /\ ~hasAvailableComponent[1]
    /\ aggRet.kind = "ComponentNotFound"

\* C10 (as claimed): only the head's class is consulted for the component flag:
\* no parent's getter answers ComponentNotFound, and a head whose class has the
\* component never returns ComponentNotFound.
C10_HeadOnlyGate ==
    \A i \in Nodes :
        /\ i > 1 => ret[i].kind # "ComponentNotFound"
        /\ hasAvailableComponent[1] => ret[1].kind # "ComponentNotFound"

(***************************************************************************)
(* Properties of GetInterfaces and normalizeInterfaces.                     *)
(***************************************************************************)
\* C11: a successful GetInterfaces on the head returns its list normalized exactly
\* once, whether a class step, an override, a parent or an override calling its
\* parent produced it; no node behind the head normalizes, and no list is
\* normalized before the head's executeWithRecursion has returned it.
C11_NormalizedOnceAtHead ==
    getter = "GetInterfaces" =>
        /\ \A i \in Nodes : exec[i].kind = "ok" => exec[i].val.norm = 0
        /\ \A i \in Nodes : i > 1 /\ ret[i].kind = "ok" => ret[i].val.norm = 0
        /\ pc[1] = "done" /\ ret[1].kind = "ok" =>
              /\ ret[1].val.norm = 1
              /\ ret[1].val.ifs = normalizeInterfaces(exec[1].val.ifs)

C11_Witness ==
    /\ getter = "GetInterfaces"
    /\ depth = 3
    /\ pc[1] = "done"
    /\ step[1].code.kind = "ok"
    /\ ret[1].kind = "ok"
    /\ ret[1].val.node = 3
    /\ ret[1].val.norm = 1
    /\ ret[1].val.ifs # exec[1].val.ifs

\* the interface reports the 32-bit sentinel speed and has a high-capacity counter
HasSentinelSpeed(interf) ==
    /\ interf.IfSpeed # Nil
    /\ interf.IfHighSpeed # Nil
    /\ interf.IfSpeed.v = MaxUint32

\* C12: normalizeInterfaces returns a list of the same length in the same order;
\* an interface whose speed and high-capacity counter are both present and whose
\* speed is exactly 4294967295 gets the speed counter * 1000000 (10 gives
\* 10,000,000); every other interface, and every other field, is unchanged.
C12_NormalizationRule ==
    norm.done =>
        /\ Len(norm.res) = Len(norm.arg)
        /\ norm.slice = norm.res
        /\ \A i \in 1..Len(norm.arg) :
            LET a == norm.arg[i]
                b == norm.res[i]
            IN  /\ b.IfIndex = a.IfIndex
                /\ b.IfHighSpeed = a.IfHighSpeed
                /\ b.SAP = a.SAP
                /\ IF HasSentinelSpeed(a)
                   THEN /\ b.IfSpeed # Nil
                        /\ b.IfSpeed.v.m = a.IfHighSpeed.v
                        /\ b.IfSpeed.v.r = 0
                        /\ a.IfHighSpeed.v = 10 => Value(b.IfSpeed.v) = 10000000
                   ELSE b.IfSpeed = a.IfSpeed

C12_Witness ==
    /\ norm.done
    /\ Len(norm.arg) = 2
    /\ HasSentinelSpeed(norm.arg[1])
    /\ norm.arg[1].IfHighSpeed.v = 10
    /\ Value(norm.res[1].IfSpeed.v) = 10 * Million
    /\ norm.arg[2].IfSpeed = Some(Num(4294, 967294))
    /\ norm.arg[2].IfHighSpeed = Some(10)
    /\ norm.res[2] = norm.arg[2]

(***************************************************************************)
(* Properties of GetIdentifyProperties.                                     *)
(***************************************************************************)
\* the field of the k-th identity getter as its result decides it
FieldOf(k) ==
    IF ident.results[k].kind = "ok" THEN Some(ident.results[k].val) ELSE Nil

\* C13: GetIdentifyProperties goes on past a NotFound or NotImplemented failure of
\* a field, leaving that field alone unset, and calls the remaining getters; any
\* other failure ends the bundle at that field with the failure and an empty
\* properties record.
C13_BestEffortPerField ==
    LET n == Len(ident.results) IN
    /\ \A k \in 1..n : k < n => ~IsHardFailure(ident.results[k])
    /\ ident.idx >= 1 =>
          /\ n = ident.idx - 1
          /\ \A k \in 1..Len(IdentifyProperties) :
                ident.props[IdentifyProperties[k]] = (IF k <= n THEN FieldOf(k) ELSE Nil)
    /\ (ident.idx = 0 /\ ident.ret # None) =>
          IF IsHardFailure(ident.results[n])
          THEN ident.ret = [kind |-> ident.results[n].kind, props |-> EmptyProperties]
          ELSE /\ n = Len(IdentifyProperties)
               /\ ident.ret.kind = "ok"
               /\ \A k \in 1..n : ident.ret.props[IdentifyProperties[k]] = FieldOf(k)

C13_Witness ==
    /\ ident.idx = 0
    /\ ident.ret # None
    /\ ident.ret.kind = "ok"
    /\ ident.results[1].kind = "NotFound"
    /\ ident.results[2].kind = "ok"
    /\ ident.results[3].kind = "NotImplemented"
    /\ ident.results[5].kind = "ok"
    /\ ident.ret.props["GetVendor"] = Nil
    /\ ident.ret.props["GetModel"] # Nil
    /\ ident.ret.props["GetModelSeries"] = Nil
    /\ ident.ret.props["GetOSVersion"] # Nil

\* C14: GetIdentifyProperties calls the getters in the order vendor, model, model
\* series, serial number, OS version, and the context given to each holds exactly
\* the values of the earlier fields that were resolved successfully.
C14_ContextFolding ==
    /\ Len(ident.calls) <= Len(IdentifyProperties)
    /\ ident.calls = SubSeq(IdentifyProperties, 1, Len(ident.calls))
    /\ Len(ident.ctxs) = Len(ident.calls)
    /\ Len(ident.results) \in {Len(ident.calls) - 1, Len(ident.calls)}
    /\ \A k \in 1..Len(ident.ctxs) :
        \A j \in 1..Len(IdentifyProperties) :
            ident.ctxs[k][IdentifyProperties[j]] = (IF j < k THEN FieldOf(j) ELSE Nil)

C14_Witness ==
    /\ Len(ident.calls) = 5
    /\ ident.calls[5] = "GetOSVersion"
    /\ ident.ctxs[5]["GetVendor"] # Nil
    /\ ident.ctxs[5]["GetModel"] = Nil
    /\ ident.ctxs[5]["GetModelSeries"] # Nil
    /\ ident.ctxs[5]["GetSerialNumber"] = Nil
    /\ ident.ctxs[3]["GetModelSeries"] = Nil
    /\ ident.ctxs[1] = EmptyProperties

(***************************************************************************)
(* Properties of the component aggregators.                                 *)
(***************************************************************************)
\* the aggregator has returned
AggReturned == agg # "none" /\ aggIdx = 0 /\ aggRet # None

\* the aggregator passed its gate, called every property getter and was not aborted
AggTriedAll ==
    /\ AggReturned
    /\ hasAvailableComponent[1]
    /\ aggCalls = Properties(agg)
    /\ pc[1] = "done"
    /\ ~IsHardFailure(ret[1])

\* some field of record rec is set
SomeFieldSet(rec) == \E f \in DOMAIN rec : rec[f]

\* C15 as stated: an advertised component none of whose properties could be
\* resolved makes the aggregator return the component-level not-found kind.
C15_EmptyIsComponentNotFound ==
    (AggTriedAll /\ aggEmpty) => aggRet.kind = "ComponentNotFound"

\* C15, amended: an advertised component none of whose properties could be resolved
\* makes the aggregator return the property-level NotFound failure with an empty
\* record, never a successful empty record and never ComponentNotFound.
C15_EmptyIsNotFound ==
    (AggTriedAll /\ aggEmpty) =>
        /\ aggRet.kind = "NotFound"
        /\ aggRet.rec = EmptyRecord(agg)
        /\ ~SomeFieldSet(aggRec)

C15_Witness ==
    /\ AggTriedAll
    /\ aggEmpty
    /\ agg = "cpu"
    /\ aggCalls = <<"GetCPUComponentCPULoad", "GetCPUComponentCPUTemperature">>
    /\ ret[1].kind = "NotFound"
    /\ aggRet.kind = "NotFound"

SoftStep ==
    (aggIdx >= 1 /\ pc[1] = "done" /\ ~IsHardFailure(ret[1])) =>
        LET props == Properties(agg) IN
        /\ aggRec' = [aggRec EXCEPT ![props[aggIdx]] = (ret[1].kind = "ok")]
        /\ IF aggIdx < Len(props)
           THEN /\ aggIdx' = aggIdx + 1
                /\ aggCalls' = Append(aggCalls, props[aggIdx + 1])
                /\ getter' = props[aggIdx + 1]
                /\ pc'[1] = "gate"
           ELSE /\ aggCalls' = aggCalls
                /\ aggIdx' = 0
                /\ SomeFieldSet(aggRec') => aggRet' = [kind |-> "ok", rec |-> aggRec']

\* the getters called so far are the first properties of the component, each once
CalledInOrder ==
    /\ Len(aggCalls) <= Len(Properties(agg))
    /\ aggCalls = SubSeq(Properties(agg), 1, Len(aggCalls))
    /\ aggIdx >= 1 => Len(aggCalls) = aggIdx

\* C17: in every aggregator a property that fails with NotFound or NotImplemented
\* leaves its field unset and the next property is resolved; without a hard failure
\* every property is resolved exactly once, in order, and if one succeeded the
\* component is returned with exactly the successful fields set.
C17_SoftFailureSkipsField == [](CalledInOrder) /\ [][SoftStep]_vars

C17_Witness ==
    /\ AggTriedAll
    /\ agg = "ups"
    /\ aggRet.kind = "ok"
    /\ ret[1].kind = "NotFound"
    /\ aggRet.rec["GetUPSComponentAlarmLowVoltageDisconnect"]
    /\ ~aggRet.rec["GetUPSComponentBatteryAmperage"]
    /\ ~aggRet.rec[Properties("ups")[Len(Properties("ups"))]]

\* C18: a property failing with a failure that is neither NotFound nor
\* NotImplemented ends the aggregator at that property: it returns a failure and
\* an empty record, whatever had been populated, and calls no later getter.
C18_HardFailureAborts ==
    (agg # "none" /\ aggIdx = 0 /\ pc[1] = "done" /\ IsHardFailure(ret[1])) =>
        /\ aggRet.kind \notin {"none", "ok"}
        /\ aggRet.rec = EmptyRecord(agg)
        /\ Len(aggCalls) >= 1
        /\ aggCalls = SubSeq(Properties(agg), 1, Len(aggCalls))
        /\ getter = aggCalls[Len(aggCalls)]

C18_Witness ==
    /\ agg = "ups"
    /\ aggIdx = 0
    /\ pc[1] = "done"
    /\ ret[1].kind = "error"
    /\ Len(aggCalls) = 3
    /\ SomeFieldSet(aggRec)
    /\ aggRet.kind = "error"
    /\ aggRet.rec = EmptyRecord("ups")

(***************************************************************************)
(* Properties of the query-tree readers.                                    *)
(***************************************************************************)
\* tree t and every deviceClassOIDs nested in it
RECURSIVE SubTrees(_)
SubTrees(t) ==
    {t} \cup UNION {SubTrees(t.kids[l]) : l \in {k \in DOMAIN t.kids : t.kids[k].type = "tree"}}

\* what the reader of label l of tree t returns on its own
ChildRead(t, l) == readOID(t.kids[l], reader.device, reader.order)

\* the labels of tree t whose reader returns rows
Readable(t) == {l \in DOMAIN t.kids : ChildRead(t, l).kind = "ok"}

\* the labels of tree t whose reader fails with something else than NotFound
Failing(t) == {l \in DOMAIN t.kids : ChildRead(t, l).kind \notin {"ok", "NotFound"}}

\* the read of tree t in the order of this run
TreeRead(t) == deviceClassOIDs_readOID(t, reader.device, reader.order)

\* C19: a successful read of a tree has one row per index in the union of the
\* indices its labels' readers returned, and the row of an index holds exactly the
\* labels whose reader returned a value for that index, each with that value.
C19_RowsGroupedByIndex ==
    reader.done =>
        /\ reader.res = TreeRead(reader.tree)
        /\ \A t \in SubTrees(reader.tree) :
            LET r == TreeRead(t) IN
            r.kind = "ok" =>
                /\ DOMAIN r.rows = UNION {DOMAIN ChildRead(t, l).rows : l \in Readable(t)}
                /\ \A i \in DOMAIN r.rows :
                    /\ DOMAIN r.rows[i] = {l \in Readable(t) : i \in DOMAIN ChildRead(t, l).rows}
                    /\ \A l \in DOMAIN r.rows[i] : r.rows[i][l] = ChildRead(t, l).rows[i]

C19_Witness ==
    /\ reader.done
    /\ reader.tree = Tree([l \in Labels |-> IF l = "X" THEN Leaf("a") ELSE Leaf("b")])
    /\ ChildRead(reader.tree, "X").kind = "ok"
    /\ ChildRead(reader.tree, "Y").kind = "ok"
    /\ DOMAIN ChildRead(reader.tree, "X").rows = {1, 2}
    /\ DOMAIN ChildRead(reader.tree, "Y").rows = {2}
    /\ reader.res.kind = "ok"
    /\ DOMAIN reader.res.rows = {1, 2}
    /\ DOMAIN reader.res.rows[1] = {"X"}
    /\ DOMAIN reader.res.rows[2] = {"X", "Y"}

\* C20: a label whose reader fails with NotFound is left out and the read succeeds
\* with the values of the other labels; a label whose reader fails in any other
\* way makes the read of the tree fail, and a failed read carries no rows.
C20_NotFoundLabelSkipped ==
    reader.done =>
        /\ reader.res = TreeRead(reader.tree)
        /\ \A t \in SubTrees(reader.tree) :
            LET r == TreeRead(t) IN
            /\ Failing(t) = {} =>
                  /\ r.kind = "ok"
                  /\ \A l \in Readable(t) : \A i \in DOMAIN ChildRead(t, l).rows :
                        /\ i \in DOMAIN r.rows
                        /\ l \in DOMAIN r.rows[i]
                        /\ r.rows[i][l] = ChildRead(t, l).rows[i]
                  /\ \A l \in DOMAIN t.kids \ Readable(t) : \A i \in DOMAIN r.rows :
                        l \notin DOMAIN r.rows[i]
            /\ Failing(t) # {} =>
                  /\ r.kind \notin {"ok", "NotFound"}
                  /\ DOMAIN r = {"kind"}

C20_Witness ==
    /\ reader.done
    /\ DOMAIN reader.tree.kids = {"X", "Y"}
    /\ reader.tree.kids["X"].type = "leaf"
    /\ ChildRead(reader.tree, "X").kind = "NotFound"
    /\ ChildRead(reader.tree, "Y").kind = "ok"
    /\ DOMAIN ChildRead(reader.tree, "Y").rows = {1, 2}
    /\ reader.res.kind = "ok"
    /\ DOMAIN reader.res.rows = {1, 2}
    /\ DOMAIN reader.res.rows[1] = {"Y"}

(***************************************************************************)
(* Properties of the leaf reader.                                           *)
(***************************************************************************)
\* the responses of the walk the leaf has read, when the walk succeeded
Walked ==
    IF reader.device.snmp /\ reader.device.walk[reader.tree.oid].kind = "ok"
    THEN reader.device.walk[reader.tree.oid].resps
    ELSE <<>>

\* the responses whose value was extracted and is not the empty string
Valued == {k \in 1..Len(Walked) : Walked[k].get /\ Walked[k].raw # ""}

\* the trailing path component of response k, parsed
IndexOf(k) == Atoi(Walked[k].oid[Len(Walked[k].oid)])

C22_UnparseableIndexFails ==
    reader.done =>
        ((\E k \in 1..Len(Walked) : ~IndexOf(k).ok) => reader.res.kind # "ok")

\* C22, amended: the rows of a successful leaf read are indexed by the trailing
\* path components, parsed as integers, of the responses whose value is not the
\* empty string, and the read fails if that component of such a response is not
\* parseable; the component of a response with an empty value is not looked at.
C22_IndexIsTrailingComponent ==
    reader.done =>
        /\ (\E k \in Valued : ~IndexOf(k).ok) => reader.res.kind \notin {"ok", "NotFound"}
        /\ reader.res.kind = "ok" =>
              /\ \A k \in Valued : IndexOf(k).ok
              /\ DOMAIN reader.res.rows = {IndexOf(k).v : k \in Valued}

C22_Witness ==
    /\ reader.done
    /\ Len(Walked) = 2
    /\ Walked[1] = Response(<<"2">>, "v")
    /\ Walked[2] = Response(<<"x">>, "w")
    /\ reader.res = ReadFail("error")

(***************************************************************************)
(* Properties of the property-group reader.                                 *)
(***************************************************************************)
\* the leaves anywhere in the tree that was read
LeavesRead ==
    {t.kids[l] : <<t, l>> \in {tl \in UNION {{<<t, l>> : l \in DOMAIN t.kids} :
                                              t \in SubTrees(reader.tree)} :
                                 tl[1].kids[tl[2]].type = "leaf"}}

\* the walk of leaf d returned no responses
NoResponses(d) == reader.device.walk[d.oid] = [kind |-> "ok", resps |-> <<>>]

\* the elements of the set of integers S in ascending order
Ascending(S) ==
    CHOOSE s \in [1..Cardinality(S) -> S] : \A i, j \in 1..Cardinality(S) : i < j => s[i] < s[j]

\* C23: zero rows are not a failure: a leaf whose walk returns no responses reads
\* as an empty result without error, so does a tree all of whose walks return no
\* responses, and getProperty then returns an empty sequence without error.
C23_ZeroRowsIsNotFailure ==
    reader.done =>
        /\ \A d \in LeavesRead :
              NoResponses(d) => deviceClassOID_readOID(d, reader.device) = ReadOk(EmptyMap)
        /\ (\A d \in LeavesRead : NoResponses(d)) =>
              /\ reader.res = ReadOk(EmptyMap)
              /\ reader.prop # None => reader.prop = [kind |-> "ok", groups |-> <<>>]

C23_Witness ==
    /\ reader.done
    /\ reader.tree = Tree([l \in Labels |-> IF l = "X" THEN Leaf("a") ELSE Leaf("b")])
    /\ \A d \in LeavesRead : NoResponses(d)
    /\ reader.res = ReadOk(EmptyMap)
    /\ reader.prop = [kind |-> "ok", groups |-> <<>>]

\* C24: getProperty returns the rows of the grouped read, each exactly once, in
\* strictly ascending order of their index, whatever order they were produced in.
C24_SortedByIndex ==
    (reader.done /\ reader.prop # None /\ reader.res.kind = "ok") =>
        /\ reader.prop.kind = "ok"
        /\ LET rows == reader.res.rows
               idx == Ascending(DOMAIN rows)
           IN  /\ Len(reader.prop.groups) = Cardinality(DOMAIN rows)
               /\ \A k \in 1..Len(reader.prop.groups) : reader.prop.groups[k] = rows[idx[k]]

C24_Witness ==
    /\ reader.done
    /\ reader.tree = Tree([l \in {"X"} |-> Leaf("a")])
    /\ reader.device.walk["a"].kind = "ok"
    /\ reader.device.walk["a"].resps =
           <<Response(<<"5">>, "u"), Response(<<"1">>, "v"), Response(<<"3">>, "w")>>
    /\ reader.prop.kind = "ok"
    /\ reader.prop.groups = <<[l \in {"X"} |-> [applied |-> "v"]],
                              [l \in {"X"} |-> [applied |-> "w"]],
                              [l \in {"X"} |-> [applied |-> "u"]]>>

(***************************************************************************)
(* Properties of merge.                                                     *)
(***************************************************************************)
\* the map at address new is what the rule makes of the maps at d and overwrite
RECURSIVE FollowsRule(_, _, _, _)
FollowsRule(heap, new, d, overwrite) ==
    LET base == heap[d].kids
        over == heap[overwrite].kids
        kids == heap[new].kids
    IN  /\ heap[new].type = "tree"
        /\ DOMAIN kids = DOMAIN base \cup DOMAIN over
        /\ \A k \in DOMAIN kids :
              IF k \notin DOMAIN over THEN kids[k] = base[k]
              ELSE IF k \notin DOMAIN base THEN kids[k] = over[k]
              ELSE IF heap[base[k]].type = "tree" /\ heap[over[k]].type = "tree"
                   THEN /\ kids[k] \notin {base[k], over[k]}
                        /\ FollowsRule(heap, kids[k], base[k], over[k])
                   ELSE kids[k] = over[k]

\* C25: merge(base, overlay) has the labels of both; a label only base has keeps
\* base's reader, a label only overlay has gets overlay's reader, a label both
\* have as subtrees gets the merge of the two subtrees, and a label both have
\* otherwise gets overlay's reader whole.
C25_MergeRule ==
    /\ layers.step >= 1 => FollowsRule(layers.heap, layers.ab, Root("A"), Root("B"))
    /\ layers.step >= 2 => FollowsRule(layers.heap, layers.abc, layers.ab, Root("C"))

C25_Witness ==
    /\ layers.step = 1
    /\ layers.ab = Root("AB")
    /\ DOMAIN layers.heap[Root("A")].kids = {"X", "Y"}
    /\ DOMAIN layers.heap[Root("B")].kids = {"X", "Y"}
    /\ layers.heap[Child(Root("A"), "X")].type = "tree"
    /\ layers.heap[Child(Root("B"), "X")].type = "tree"
    /\ DOMAIN layers.heap[Child(Root("A"), "X")].kids = {"X"}
    /\ DOMAIN layers.heap[Child(Root("B"), "X")].kids = {"Y"}
    /\ layers.heap[Root("AB")].kids = [l \in {"X", "Y"} |->
                                        IF l = "X" THEN Child(Root("AB"), "X") ELSE Child(Root("B"), "Y")]
    /\ layers.heap[Child(Root("AB"), "X")].kids = [l \in {"X", "Y"} |->
                                             IF l = "X" THEN Child(Child(Root("A"), "X"), "X")
                                             ELSE Child(Child(Root("B"), "X"), "Y")]

\* C26: merge writes to neither of the maps it is given nor to any reader below
\* them: every node there was before a merge is the same after it, so reading an
\* input of the merge afterwards gives what it gave before.
C26_InputsNotMutated ==
    [][\A a \in DOMAIN layers.heap :
          a \in DOMAIN layers'.heap /\ layers'.heap[a] = layers.heap[a]]_vars

C26_Witness ==
    /\ layers.step = 2
    /\ DOMAIN layers.heap[Root("A")].kids = {"X"}
    /\ DOMAIN layers.heap[Root("B")].kids = {"X", "Y"}
    /\ DOMAIN layers.heap[Root("C")].kids = {"X"}
    /\ layers.heap[Child(Root("A"), "X")] = Tree(Put(EmptyMap, "X", Child(Child(Root("A"), "X"), "X")))
    /\ layers.heap[Child(Root("B"), "X")] = Tree(Put(EmptyMap, "Y", Child(Child(Root("B"), "X"), "Y")))
    /\ layers.heap[Child(Root("C"), "X")].type = "leaf"
    /\ DOMAIN layers.heap[layers.ab].kids = {"X", "Y"}
    /\ DOMAIN layers.heap[layers.heap[layers.ab].kids["X"]].kids = {"X", "Y"}
    /\ layers.heap[layers.abc].kids["X"] = Child(Root("C"), "X")

\* the layers in the order they are applied
Layering == <<"A", "B", "C">>

\* the leaves below the node at addr, itself at position pos: <<position, address>>
RECURSIVE Leaves(_, _, _)
Leaves(heap, addr, pos) ==
    IF heap[addr].type = "leaf" THEN {<<pos, addr>>}
    ELSE UNION {Leaves(heap, heap[addr].kids[l], Child([layer |-> "", pos |-> pos], l).pos) :
                    l \in DOMAIN heap[addr].kids}

\* the positions above position p, the root included
RECURSIVE ProperPrefixes(_)
ProperPrefixes(p) ==
    IF p = 0 THEN {} ELSE {(p - 1) \div 3} \cup ProperPrefixes((p - 1) \div 3)

\* the positions at which one of the layers has a node
Positions == {a.pos : a \in {b \in DOMAIN layers.heap : b.layer \in {"A", "B", "C"}}}

\* layer i has a node at position p
HasNode(i, p) == [layer |-> Layering[i], pos |-> p] \in DOMAIN layers.heap

\* layer i has a leaf at position p
HasLeaf(i, p) == HasNode(i, p) /\ layers.heap[[layer |-> Layering[i], pos |-> p]].type = "leaf"

\* C27 as stated: every leaf position that some layer defines holds, in
\* merge(merge(A, B), C), the node of the last-applied layer that defines it, and
\* the result has no other leaves.
C27_LastLayerWinsPerLeaf ==
    layers.step = 2 =>
        Leaves(layers.heap, layers.abc, 0) =
            {<<p, [layer |-> Layering[i], pos |-> p]>> :
                <<i, p>> \in {ip \in (1..3) \X Positions :
                                 /\ HasLeaf(ip[1], ip[2])
                                 /\ \A j \in 1..3 : j > ip[1] => ~HasLeaf(j, ip[2])}}

\* C27, amended: merge(merge(A, B), C) is A, B, C layered in this order by the
\* rule of merge: a leaf of a layer is in the result, at its position and as that
\* layer's node, exactly when no later layer has a node at its position and no
\* later layer has a leaf above it; the result has no other leaves.
C27_LayeredInOrder ==
    layers.step = 2 =>
        Leaves(layers.heap, layers.abc, 0) =
            {<<p, [layer |-> Layering[i], pos |-> p]>> :
                <<i, p>> \in {ip \in (1..3) \X Positions :
                                 /\ HasLeaf(ip[1], ip[2])
                                 /\ \A j \in 1..3 : j > ip[1] =>
                                       /\ ~HasNode(j, ip[2])
                                       /\ \A q \in ProperPrefixes(ip[2]) : ~HasLeaf(j, q)}}

C27_Witness ==
    /\ layers.step = 2
    /\ HasLeaf(1, 4)
    /\ HasLeaf(2, 1)
    /\ DOMAIN layers.heap[Root("A")].kids = {"X"}
    /\ DOMAIN layers.heap[Root("B")].kids = {"X"}
    /\ DOMAIN layers.heap[Root("C")].kids = {"Y"}
    /\ Leaves(layers.heap, layers.abc, 0) =
          {<<1, Child(Root("B"), "X")>>, <<2, Child(Root("C"), "Y")>>}

(***************************************************************************)
(* Properties of the TiMOS SAS interface correlation.                       *)
(***************************************************************************)
\* the number whose decimal digits are those of p followed by those of q
Concatenated(p, q) == IF q < 10 THEN 10 * p + q ELSE 100 * p + q

\* the composite sub-index of row k of the SAP table
Composite(k) == Concatenated(sap.walk.rows[k][2], sap.walk.rows[k][3])

\* the call got as far as the rows of the SAP table
RowsWalked == sap.done /\ sap.parent.kind = "ok" /\ sap.con /\ sap.walk.kind = "ok"

\* C28: if the composite sub-index of a row of the SAP table is the index of no
\* interface of the parent's list, GetInterfaces fails and returns no list.
C28_UnmatchedRowFails ==
    RowsWalked =>
        ((\E k \in 1..Len(sap.walk.rows) :
              \A i \in 1..Len(sap.parent.ifs) : sap.parent.ifs[i].IfIndex # Composite(k))
            => sap.res.kind # "ok" /\ DOMAIN sap.res = {"kind"})

\* C29: a call that succeeds has attached every row of the SAP table to an
\* interface whose index is the row's composite sub-index, the number whose
\* decimal digits are the two trailing segments concatenated; and the call
\* succeeds when every row has such an interface and every lookup is answered.
C29_DecimalConcatenation ==
    RowsWalked =>
        /\ sap.res.kind = "ok" =>
              \A k \in 1..Len(sap.walk.rows) :
                  \E i \in 1..Len(sap.res.ifs) :
                      /\ sap.res.ifs[i].IfIndex = Composite(k)
                      /\ sap.res.ifs[i].SAP.set
        /\ (/\ sap.bad = None
            /\ \A k \in 1..Len(sap.walk.rows) :
                  \E i \in 1..Len(sap.parent.ifs) : sap.parent.ifs[i].IfIndex = Composite(k))
              => sap.res.kind = "ok"

(***************************************************************************)
(* Properties of repeated resolutions.                                      *)
(***************************************************************************)
\* a resolution leaves the chain and the device as it found them
ReadsOnly == runs'.chain = runs.chain /\ runs'.device = runs.device

\* C30: two resolutions of the same property on the same chain against the same
\* device responses have the same outcome, the same value or the same kind of
\* failure, whatever the orders in which the readers iterate their maps, and a
\* resolution changes nothing that the next one reads.
C30_Deterministic ==
    /\ [](runs.n = 2 => runs.out[1] = runs.out[2])
    /\ [][ReadsOnly]_vars

C30_Witness ==
    /\ runs.n = 2
    /\ runs.orders[1] # runs.orders[2]
    /\ Len(runs.chain) = 2
    /\ runs.chain[1].oids = None
    /\ runs.chain[1].com = NotImplementedError
    /\ runs.chain[2].oids = Tree([l \in Labels |-> Leaf(OIDFor(l))])
    /\ runs.device.walk["a"].kind = "ok"
    /\ runs.device.walk["b"].kind = "NotFound"
    /\ runs.out[1].kind = "ok"
    /\ Len(runs.out[1].val) = 2
    /\ runs.out[2] = runs.out[1]

(***************************************************************************)
(* Properties of one call of executeWithRecursion.                          *)
(***************************************************************************)
\* the place of a step in the order class, override, parent
StepRank(s) == IF s = "class" THEN 1 ELSE IF s = "code" THEN 2 ELSE 3

\* the kinds of the outcomes of the three steps of node i, a step that is absent
\* or was not evaluated counting as NotImplemented
StepKinds(i) ==
    <<step[i].class.kind,
      IF step[i].code = None THEN "NotImplemented" ELSE step[i].code.kind,
      IF step[i].sub = None THEN "NotImplemented" ELSE step[i].sub.kind>>

\* the kind of the first step of node i that is not NotImplemented
FirstKind(i) ==
    LET kinds == StepKinds(i)
        told == {n \in 1..3 : kinds[n] # "NotImplemented"}
    IN  IF told = {} THEN "NotImplemented"
        ELSE kinds[CHOOSE n \in told : \A m \in told : n <= m]

\* C31: in one call of executeWithRecursion the class, override and parent steps
\* are evaluated at most once each and in this order, and the outcome returned
\* has the kind of the first step that did not answer NotImplemented, an absent
\* step counting as NotImplemented; it is NotImplemented when there is none.
C31_FirstToldStepDecides ==
    /\ \A k, m \in 1..Len(trace) :
          (k < m /\ trace[k][1] = trace[m][1]) => StepRank(trace[k][2]) < StepRank(trace[m][2])
    /\ \A i \in Nodes :
          /\ step[i].code # None => Attempted(i, "class") /\ Attempted(i, "code")
          /\ step[i].sub # None => Attempted(i, "class") /\ Attempted(i, "sub")
          /\ exec[i] # None => exec[i].kind = FirstKind(i)

C31_Witness ==
    /\ depth >= 2
    /\ codeCommunicator[1]
    /\ exec[1] # None
    /\ StepKinds(1) = <<"NotImplemented", "NotImplemented", "NotFound">>
    /\ exec[1].kind = "NotFound"
    /\ \E k \in 1..Len(trace) :
          k + 2 <= Len(trace) /\ trace[k] = <<1, "class">> /\ trace[k + 1] = <<1, "code">>
                              /\ trace[k + 2] = <<1, "sub">>

(***************************************************************************)
(* Properties of normalizeInterfaces applied again.                         *)
(***************************************************************************)
\* C32: normalizeInterfaces applied to the list it has returned returns that list
\* unchanged: applying it twice gives what applying it once gives.
C32_Idempotent ==
    norm.twice =>
        /\ norm.again = norm.res
        /\ norm.slice = norm.res

C32_Witness ==
    /\ norm.twice
    /\ Len(norm.arg) = 2
    /\ HasSentinelSpeed(norm.arg[1])
    /\ norm.arg[1].IfHighSpeed.v = 4295
    /\ HasSentinelSpeed(norm.arg[2])
    /\ norm.arg[2].IfHighSpeed.v = 0
    /\ norm.res # norm.arg
    /\ norm.again[1].IfSpeed = Some(Num(4295, 0))
    /\ norm.again[2].IfSpeed = Some(Num(0, 0))

(***************************************************************************)
(* What GetInterfaces of the TiMOS SAS communicator leaves alone.           *)
(***************************************************************************)
\* interface i of the returned list, its SAP data set aside
WithoutSAP(interf) == [interf EXCEPT !.SAP = Nil]

\* C33: a call that succeeds returns the parent's list with the same length
\* and order and every field but SAP unchanged, and an interface carries SAP
\* data only if the composite sub-index of some row of the SAP table is its
\* index, the others being unchanged; if the parent's listing fails, that
\* failure is returned and the SAP table is not walked.
C33_SapFrame ==
    sap.done =>
        /\ sap.res.kind = "ok" =>
              /\ Len(sap.res.ifs) = Len(sap.parent.ifs)
              /\ \A i \in 1..Len(sap.parent.ifs) :
                    /\ WithoutSAP(sap.res.ifs[i]) = WithoutSAP(sap.parent.ifs[i])
                    /\ sap.res.ifs[i].SAP # sap.parent.ifs[i].SAP =>
                          \E k \in 1..Len(sap.walk.rows) :
                              Composite(k) = sap.parent.ifs[i].IfIndex
        /\ sap.parent.kind # "ok" =>
              /\ sap.res = ReadFail(sap.parent.kind)
              /\ ~sap.walked

(***************************************************************************)
(* Empty values and repeated indices in a leaf read.                        *)
(***************************************************************************)
\* the value of the response was extracted and is the empty string
EmptyValued(response) == response.get /\ response.raw = ""

\* the responses of the walk but those with an empty value
NonEmptyWalked == SelectSeq(Walked, LAMBDA response : ~EmptyValued(response))

\* C34: a response of the walk whose value is the empty string contributes no
\* row, and neither the pipeline nor the index parsing is applied to it: the
\* read gives what it gives without these responses, its rows are indexed by the
\* responses with a non-empty value only, and when every response has either
\* an empty value or a value and an index that convert, the read succeeds,
\* whatever the trailing components of the empty-valued responses are.
C34_EmptyValueContributesNothing ==
    (reader.done /\ reader.device.snmp /\ reader.device.walk[reader.tree.oid].kind = "ok") =>
        /\ reader.res = ReadResponses(NonEmptyWalked, EmptyMap)
        /\ reader.res.kind = "ok" => DOMAIN reader.res.rows = {IndexOf(k).v : k \in Valued}
        /\ (\A k \in 1..Len(Walked) :
                \/ EmptyValued(Walked[k])
                \/ k \in Valued /\ OperatorsApply(Walked[k].raw).ok /\ IndexOf(k).ok)
              => reader.res.kind = "ok"

C34_Witness ==
    /\ reader.done
    /\ Len(Walked) = 2
    /\ Walked[1] = Response(<<"x">>, "")
    /\ Walked[2] = Response(<<"1">>, "v")
    /\ reader.res = ReadOk(Put(EmptyMap, 1, [applied |-> "v"]))

\* the last response with a non-empty value whose trailing component parses to i
LastAt(i) ==
    CHOOSE k \in Valued :
        /\ IndexOf(k).v = i
        /\ \A j \in Valued : IndexOf(j).v = i => j <= k

\* C36: a leaf read that succeeds has one row for each distinct trailing index
\* among the responses with a non-empty value, and the row holds the converted
\* value of the last of the responses with that index.
C36_LaterResponseWins ==
    (reader.done /\ reader.res.kind = "ok") =>
        /\ Cardinality(DOMAIN reader.res.rows) = Cardinality({IndexOf(k).v : k \in Valued})
        /\ \A k \in Valued :
              /\ IndexOf(k).v \in DOMAIN reader.res.rows
              /\ reader.res.rows[IndexOf(k).v] =
                     OperatorsApply(Walked[LastAt(IndexOf(k).v)].raw).v

C36_Witness ==
    /\ reader.done
    /\ Len(Walked) = 2
    /\ Walked[1] = Response(<<"1">>, "v")
    /\ Walked[2] = Response(<<"1">>, "w")
    /\ reader.res = ReadOk(Put(EmptyMap, 1, [applied |-> "w"]))

(***************************************************************************)
(* A tree none of whose labels is found.                                    *)
(***************************************************************************)
\* the reader of every label of tree t fails with NotFound
NoLabelFound(t) == \A l \in DOMAIN t.kids : ChildRead(t, l).kind = "NotFound"

\* C35: when the reader of every label of a tree fails with NotFound, the read
\* of the tree does not fail with NotFound: it succeeds with zero rows, and
\* getProperty on such a tree returns an empty sequence and no error.
C35_AllNotFoundIsEmpty ==
    reader.done =>
        /\ \A t \in SubTrees(reader.tree) : NoLabelFound(t) => TreeRead(t) = ReadOk(EmptyMap)
        /\ NoLabelFound(reader.tree) =>
              /\ reader.res = ReadOk(EmptyMap)
              /\ reader.prop # None => reader.prop = [kind |-> "ok", groups |-> <<>>]

C35_Witness ==
    /\ reader.done
    /\ reader.tree = Tree([l \in Labels |-> IF l = "X" THEN Leaf("a") ELSE Leaf("b")])
    /\ reader.device.walk["a"] = [kind |-> "NotFound"]
    /\ reader.device.walk["b"] = [kind |-> "NotFound"]
    /\ NoLabelFound(reader.tree)
    /\ reader.res = ReadOk(EmptyMap)
    /\ reader.prop = [kind |-> "ok", groups |-> <<>>]

====
